---- MODULE Spec2Model ----
(***************************************************************************)
(* Model of the provider client of waktu-iban-bulan (src/app/utils/api.ts) *)
(* and of the views that consume it.                                       *)
(*                                                                         *)
(* Strings the code parses or compares (time strings, year fields) are     *)
(* sequences of one-character strings, so that split, Number, parseInt,    *)
(* toString and padStart are computed as the code computes them.           *)
(* An asynchronous call is a frame (a record) of the variable task; each   *)
(* await is a state of the frame and each action runs the synchronous code *)
(* between two awaits.                                                     *)
(***************************************************************************)
EXTENDS Integers, Sequences, FiniteSets, TLC

VARIABLES
  task,   \* task[t]: the frame of the asynchronous call t
  seen,   \* errors observed by callers: <<operation, cause, error value>>
  norm,   \* a use of formatTime: its argument and its results
  verify, \* the frame of verifyRamadanDates
  today,  \* the TodayPrayers view and its interval timers
  calendar, \* the Calendar view: its prayer list and its interval timers
  built,  \* a Timing Set being built by getPrayerTimes from provider results
  grid,   \* the Calendar view: its month grid and the month fetches in flight
  ramadan \* the RamadanCalendar view, its fetch cycles and its retry timers

vars == <<task, seen, norm, verify, today, calendar, built, grid, ramadan>>

\* the views
views == <<today, calendar, grid, ramadan>>

\* the state the provider client does not touch
nonClient == <<norm, built, verify, views>>

\* the state a use of formatTime does not touch
nonTime == <<task, seen, built, verify, views>>

\* the state a view does not touch
nonView == <<task, seen, norm, built, verify>>

\* the state the building of a Timing Set does not touch
nonBuilt == <<task, seen, norm, verify, views>>

Tasks == {"primary", "secondary"}

----------------------------------------------------------------------------
(* Program constants                                                       *)

DefaultRetries == 3

RetryDelayMs == 1000

OkCode == 200

----------------------------------------------------------------------------
(* Characters and numbers                                                  *)

DigitChars == <<"0", "1", "2", "3", "4", "5", "6", "7", "8", "9">>

IsDigit(c) == \E d \in 1..10 : DigitChars[d] = c

DigitVal(c) == (CHOOSE d \in 1..10 : DigitChars[d] = c) - 1

Last(s) == s[Len(s)]

NumToStr(n) ==
  LET RECURSIVE Str(_)
      Str(k) == IF k < 10 THEN <<DigitChars[k + 1]>>
                ELSE Str(k \div 10) \o <<DigitChars[(k % 10) + 1]>>
  IN Str(n)

\* a number as JavaScript has it here: NaN or a natural number
NaN == [nan |-> TRUE, v |-> 0]

Num(n) == [nan |-> FALSE, v |-> n]

\* n + d, NaN staying NaN
NumPlus(n, d) == IF n.nan THEN NaN ELSE Num(n.v + d)

\* n.toString() of an integer
IntToString(n) == IF n < 0 THEN <<"-">> \o NumToStr(-n) ELSE NumToStr(n)

\* n.toString() of a number
NumToString(n) == IF n.nan THEN <<"N", "a", "N">> ELSE IntToString(n.v)

\* parseInt(s) for s of digits and letters: the value of the leading digits,
\* NaN when s is undefined, empty or starts with no digit
ParseInt(s) ==
  LET RECURSIVE Val(_, _)
      Val(j, acc) == IF j > Len(s) \/ ~IsDigit(s[j]) THEN acc
                     ELSE Val(j + 1, 10 * acc + DigitVal(s[j]))
  IN IF s = <<>> \/ ~IsDigit(s[1]) THEN NaN ELSE Num(Val(1, 0))

----------------------------------------------------------------------------
(* String operations of JavaScript on character sequences                  *)

Includes(s, c) == \E j \in 1..Len(s) : s[j] = c

\* s.split(c)
Split(s, c) ==
  LET RECURSIVE Pieces(_, _, _)
      Pieces(j, cur, acc) ==
        IF j > Len(s) THEN Append(acc, cur)
        ELSE IF s[j] = c THEN Pieces(j + 1, <<>>, Append(acc, cur))
        ELSE Pieces(j + 1, Append(cur, s[j]), acc)
  IN Pieces(1, <<>>, <<>>)

\* s.trim(), the only white space here being the blank
Trim(s) ==
  LET nonBlank == {j \in 1..Len(s) : s[j] # " "}
      Min(S) == CHOOSE x \in S : \A y \in S : x <= y
      Max(S) == CHOOSE x \in S : \A y \in S : x >= y
  IN IF nonBlank = {} THEN <<>> ELSE SubSeq(s, Min(nonBlank), Max(nonBlank))

\* Number(s) for s of digits, letters, ':' and blanks: the empty and the
\* blank string are 0, a string of decimal digits is its value, anything else
\* is NaN
ToNumber(s) ==
  LET RECURSIVE Val(_, _)
      Val(j, acc) == IF j > Len(s) THEN acc
                     ELSE Val(j + 1, 10 * acc + DigitVal(s[j]))
      u == Trim(s)
  IN IF \A j \in 1..Len(u) : IsDigit(u[j]) THEN Num(Val(1, 0)) ELSE NaN

\* the element of an array of numbers a destructuring gives: undefined past
\* the end, and isNaN(undefined) is true
NumberAt(pieces, j) ==
  IF j <= Len(pieces) THEN ToNumber(pieces[j]) ELSE NaN

\* the element of an array of strings a destructuring gives; undefined is
\* falsy like the empty string
StringAt(pieces, j) == IF j <= Len(pieces) THEN pieces[j] ELSE <<>>

\* n.toString().padStart(2, '0')
PadStart2(s) ==
  IF Len(s) >= 2 THEN s
  ELSE IF Len(s) = 1 THEN <<"0">> \o s ELSE <<"0", "0">>

ToUpperCase(s) ==
  [j \in 1..Len(s) |->
     CASE s[j] = "a" -> "A" [] s[j] = "p" -> "P" [] s[j] = "m" -> "M"
       [] OTHER -> s[j]]

----------------------------------------------------------------------------
(* formatTime, api.ts:1038-1076 (the 12-hour to 24-hour conversion)        *)

\* `${hours.toString().padStart(2, '0')}:${minutes.toString().padStart(2, '0')}`
HHMM(hours, minutes) ==
  PadStart2(NumToStr(hours)) \o <<":">> \o PadStart2(NumToStr(minutes))

\* lines 1064-1069
To24Hour(hours, period) ==
  IF ToUpperCase(period) = <<"P", "M">> /\ hours # 12 THEN hours + 12
  ELSE IF ToUpperCase(period) = <<"A", "M">> /\ hours = 12 THEN 0
  ELSE hours

\* lines 1045-1051: already in 24-hour format
Format24(time) ==
  LET pieces == Split(time, ":")
      hours == NumberAt(pieces, 1)
      minutes == NumberAt(pieces, 2)
  IN IF hours.nan \/ minutes.nan THEN <<>> ELSE HHMM(hours.v, minutes.v)

\* lines 1053-1071: from 12-hour format
Format12NoPad(time) ==
  LET parts == Split(time, " ")
      timeStr == StringAt(parts, 1)
      period == StringAt(parts, 2)
      pieces == Split(timeStr, ":")
      hours == NumberAt(pieces, 1)
      minutes == NumberAt(pieces, 2)
  IN IF timeStr = <<>> \/ period = <<>> THEN <<>>
     ELSE IF hours.nan \/ minutes.nan THEN <<>>
     ELSE NumToStr(To24Hour(hours.v, period)) \o <<":">> \o NumToStr(minutes.v)

Format12(time) ==
  LET parts == Split(time, " ")
      timeStr == StringAt(parts, 1)
      period == StringAt(parts, 2)
      pieces == Split(timeStr, ":")
      hours == NumberAt(pieces, 1)
      minutes == NumberAt(pieces, 2)
  IN IF timeStr = <<>> \/ period = <<>> THEN <<>>
     ELSE IF hours.nan \/ minutes.nan THEN <<>>
     ELSE HHMM(To24Hour(hours.v, period), minutes.v)

formatTime(time) ==
  IF time = <<>> \/ Trim(time) = <<>> THEN <<>>
  ELSE IF Includes(time, ":") /\ ~Includes(time, " ") THEN Format24(time)
  ELSE Format12(time)

----------------------------------------------------------------------------
(* formatTime, api.ts:91-94 (the meridiem is stripped)                     *)

\* time.replace(/[APap][Mm]$/, '')
StripMeridiem(time) ==
  IF /\ Len(time) >= 2
     /\ time[Len(time) - 1] \in {"A", "P", "a", "p"}
     /\ time[Len(time)] \in {"M", "m"}
  THEN SubSeq(time, 1, Len(time) - 2)
  ELSE time

formatTimeShort(time) ==
  IF time = <<>> THEN <<>> ELSE Trim(StripMeridiem(time))

----------------------------------------------------------------------------
(* Uses of formatTime                                                      *)
(* norm.time is the argument, built from an hour part, a separator, a      *)
(* minute part, a gap and a meridiem part (kept in norm.parts); norm.impl  *)
(* is the implementation called, norm.once its result, norm.twice the      *)
(* result of calling it again on norm.once and norm.other the result of    *)
(* the other implementation for norm.time.                                 *)

MaxHour == 23

MaxMinute == 59

TwoDigits(n) == <<DigitChars[(n \div 10) + 1], DigitChars[(n % 10) + 1]>>

HourParts ==
  { NumToStr(h) : h \in 0..MaxHour } \cup { TwoDigits(h) : h \in 0..9 }
    \cup { <<>>, <<"z">>, <<"1", "z">> }

MinuteParts ==
  { TwoDigits(m) : m \in 0..MaxMinute } \cup { <<"5">>, <<>>, <<"z", "5">> }

SepParts == { <<":">>, <<>> }

GapParts == { <<>>, <<" ">>, <<" ", " ">> }

MeridiemParts ==
  { <<>>, <<"A", "M">>, <<"P", "M">>, <<"a", "m">>, <<"p", "m">>, <<"z", "M">> }

TimeParts ==
  [hour : HourParts, sep : SepParts, minute : MinuteParts, gap : GapParts,
   meridiem : MeridiemParts]

TimeOf(p) == p.hour \o p.sep \o p.minute \o p.gap \o p.meridiem

IdleNorm ==
  [pc |-> "idle", impl |-> "none",
   parts |-> [hour |-> <<>>, sep |-> <<>>, minute |-> <<>>, gap |-> <<>>,
              meridiem |-> <<>>],
   time |-> <<>>, once |-> <<>>, twice |-> <<>>, other |-> <<>>]

Apply(impl, time) ==
  IF impl = "full" THEN formatTime(time) ELSE formatTimeShort(time)


----------------------------------------------------------------------------
(* Provider responses                                                      *)
(* A decoded response body.  nil: the body is null or empty; code: the     *)
(* body's code field (0 when absent); hasResults: a results object is      *)
(* present; hasData: a data field is present; isArray: data is a sequence  *)
(* (days); hasHijri: data.hijri is present (year: its year field).         *)

Body(nil, code, hasResults, hasData, isArray, days, hasHijri, year) ==
  [nil |-> nil, code |-> code, hasResults |-> hasResults, hasData |-> hasData,
   isArray |-> isArray, days |-> days, hasHijri |-> hasHijri, year |-> year]

\* An element of a calendar listing.  isObject: it is a non-null object;
\* gregorian, hijri: the sub-structure is "absent", "shallow" (an object
\* without the nested weekday and month objects) or "full"; year: the string
\* gregorian.year; n: the day's place in the provider's listing.
DayOf(n, isObject, gregorian, hijri, year) ==
  [n |-> n, isObject |-> isObject, gregorian |-> gregorian, hijri |-> hijri,
   year |-> year]

Day(n, year) == DayOf(n, TRUE, "full", "full", year)

NoBody == Body(TRUE, 0, FALSE, FALSE, FALSE, <<>>, FALSE, <<>>)

\* what axios rejects with: no response at all, or a response whose HTTP
\* status is outside 2xx
AxiosErrors == {"Network Error", "Request failed with status code 500"}

\* the bodies the providers are taken to send, per endpoint: well-shaped ones
\* and every wrong shape the wrappers test for
SomeDays == <<Day(1, <<"2", "0", "2", "5">>), Day(2, <<"2", "0", "2", "5">>)>>

CalendarBodies ==
  { NoBody,
    Body(FALSE, OkCode, FALSE, TRUE, TRUE, SomeDays, FALSE, <<>>),
    Body(FALSE, 404, FALSE, TRUE, TRUE, SomeDays, FALSE, <<>>),
    Body(FALSE, 0, FALSE, TRUE, TRUE, SomeDays, FALSE, <<>>),
    Body(FALSE, OkCode, FALSE, TRUE, FALSE, <<>>, FALSE, <<>>),
    Body(FALSE, OkCode, FALSE, FALSE, FALSE, <<>>, FALSE, <<>>) }

PrayerBodies ==
  { NoBody,
    Body(FALSE, OkCode, TRUE, FALSE, FALSE, <<>>, FALSE, <<>>),
    Body(FALSE, OkCode, FALSE, FALSE, FALSE, <<>>, FALSE, <<>>) }

\* the year field of a hijri descriptor: a decimal string, or none
HijriYearFields == { <<"1", "4", "4", "6">>, <<"1", "4", "4", "7">>, <<>> }

\* the longest listing a provider is taken to send
MaxDays == 31

\* what the place of one day of a listing can hold instead of a full day
DayKinds == {"full", "null", "noHijri", "noGregorian", "shallow"}

DayOfKind(n, kind, year) ==
  CASE kind = "null"        -> DayOf(n, FALSE, "absent", "absent", <<>>)
    [] kind = "noHijri"     -> DayOf(n, TRUE, "full", "absent", year)
    [] kind = "noGregorian" -> DayOf(n, TRUE, "absent", "full", <<>>)
    [] kind = "shallow"     -> DayOf(n, TRUE, "shallow", "full", year)
    [] OTHER                -> Day(n, year)

\* a listing of len days for the Gregorian year g: the first lead days fall in
\* the year before, and the third day is of the given kind
Listing(g, len, lead, kind) ==
  [n \in 1..len |->
     LET year == IF n <= lead THEN IntToString(g - 1) ELSE IntToString(g)
     IN IF n = 3 THEN DayOfKind(n, kind, year) ELSE Day(n, year)]

Listings(g) ==
  { Listing(g, len, lead, kind) :
      len \in (MaxDays - 3)..MaxDays, lead \in {0, 1, 2, MaxDays}, kind \in DayKinds }

RamadanBodies(g) ==
  { NoBody,
    Body(FALSE, 404, FALSE, TRUE, TRUE, Listing(g, MaxDays, 0, "full"), FALSE, <<>>),
    Body(FALSE, OkCode, FALSE, TRUE, FALSE, <<>>, FALSE, <<>>) }
  \cup { Body(FALSE, OkCode, FALSE, TRUE, TRUE, days, FALSE, <<>>) : days \in Listings(g) }

ConvertBodies ==
  { NoBody,
    Body(FALSE, OkCode, FALSE, FALSE, FALSE, <<>>, FALSE, <<>>),
    Body(FALSE, OkCode, FALSE, TRUE, FALSE, <<>>, FALSE, <<>>),
    Body(FALSE, 404, FALSE, TRUE, FALSE, <<>>, TRUE, <<"1", "4", "4", "6">>) }
  \cup { Body(FALSE, OkCode, FALSE, TRUE, FALSE, <<>>, TRUE, y) : y \in HijriYearFields }

\* the provider as the two concurrent calls of verifyRamadanDates are taken
\* to meet it: the conversion is answered with the year 1446, a candidate
\* with a whole listing of MaxDays - 3 to MaxDays days of the requested year
\* or with a network error
WindowBodies(g) ==
  { Body(FALSE, OkCode, FALSE, TRUE, TRUE, Listing(g, len, 0, "full"), FALSE, <<>>) :
      len \in (MaxDays - 3)..MaxDays }

WindowConvertBodies ==
  { Body(FALSE, OkCode, FALSE, TRUE, FALSE, <<>>, TRUE, <<"1", "4", "4", "6">>) }

\* an unreliable provider: every request may be lost; a conversion that is
\* answered gives the year 1446, a candidate that is answered gives a
\* refusal or a listing of 29 days of the requested year
UnreliableBodies(f) ==
  IF f.url = "gToH" THEN WindowConvertBodies
  ELSE { Body(FALSE, 404, FALSE, TRUE, FALSE, <<>>, FALSE, <<>>),
         Body(FALSE, OkCode, FALSE, TRUE, TRUE,
              Listing(f.gregorianYear, MaxDays - 2, 0, "full"), FALSE, <<>>) }

\* the bodies that can answer the request of the frame f
Bodies(f) ==
  CASE f.provider = "unreliable" -> UnreliableBodies(f)
    [] f.url = "gToHCalendar"  -> CalendarBodies
    [] f.url = "prayer_times"  -> PrayerBodies
    [] f.url = "gToH" /\ f.caller = "verifyRamadanDates" -> WindowConvertBodies
    [] f.url = "gToH"          -> ConvertBodies
    [] f.url = "hijriCalendar" /\ f.caller = "verifyRamadanDates"
                               -> WindowBodies(f.gregorianYear)
    [] f.url = "hijriCalendar" -> RamadanBodies(f.gregorianYear)
    [] OTHER                   -> {NoBody}

\* the errors axios can reject the request of the frame f with
Rejections(f) ==
  IF f.provider = "unreliable" THEN {"Network Error"}
  ELSE IF f.caller = "verifyRamadanDates"
  THEN (IF f.url = "hijriCalendar" THEN {"Network Error"} ELSE {})
  ELSE AxiosErrors

----------------------------------------------------------------------------
(* Frames                                                                  *)
(* op: the operation the frame runs; pc: its position; status: idle,       *)
(* running, returned or raised; error: the error value raised to the       *)
(* caller; value: the data returned.  fpc, i, retries, url, data, ferr are *)
(* the fetchWithRetry call the frame is awaiting.  History kept for the    *)
(* properties: requests (axios.get calls of this fetchWithRetry call),     *)
(* outcomes (their outcomes in order), waits and slept (timers of this     *)
(* call and the time they took), responded/response (the last body axios   *)
(* delivered), gets (axios.get calls of the whole operation), cause (why   *)
(* the operation raised).  gregorianYear, adjustment, hijriYear,           *)
(* yearsToTry, ramadanDays are the variables of findRamadanYear and        *)
(* getRamadanCalendar, k the place of the for-of loop in yearsToTry;       *)
(* history: fellBack (the approximation was taken), requested (the year    *)
(* parameters of the hijriCalendar requests made, in order), caller (the   *)
(* function that made the call), rank (1 for the call that settled first,  *)
(* 2 for the one that settled second), provider (what the call is taken to *)
(* meet: any provider, or the unreliable one).                             *)

IdleTask ==
  [op |-> "none", pc |-> "idle", status |-> "idle", error |-> "", cause |-> "",
   value |-> <<>>,
   fpc |-> "idle", i |-> 0, retries |-> DefaultRetries, url |-> "",
   data |-> NoBody, ferr |-> "",
   requests |-> 0, outcomes |-> <<>>, waits |-> 0, slept |-> 0,
   responded |-> FALSE, response |-> NoBody, gets |-> 0,
   gregorianYear |-> 0, adjustment |-> 0, hijriYear |-> Num(0),
   fellBack |-> FALSE, yearsToTry |-> <<>>, k |-> 0, ramadanDays |-> <<>>,
   requested |-> <<>>, caller |-> "", rank |-> 0, provider |-> "any"]

Start(op, pc) ==
  [IdleTask EXCEPT !.op = op, !.pc = pc, !.status = "running"]

Raise(f, error, cause) ==
  [f EXCEPT !.status = "raised", !.pc = "done", !.error = error, !.cause = cause]

Return(f, value) ==
  [f EXCEPT !.status = "returned", !.pc = "done", !.value = value]

----------------------------------------------------------------------------
(* fetchWithRetry, api.ts:71-88                                            *)

\* the call: retries = 3 by default, let i = 0
FetchEnter(f, url) ==
  [f EXCEPT !.fpc = "loop", !.i = 0, !.retries = DefaultRetries, !.url = url,
            !.data = NoBody, !.ferr = "",
            !.requests = 0, !.outcomes = <<>>, !.waits = 0, !.slept = 0,
            !.responded = FALSE, !.response = NoBody]

\* for (...; i < retries; ...)
LoopCond(f) == f.i < f.retries

\* the loop head: axios.get is issued, or the loop is left and the function
\* throws 'Maximum retries reached'
LoopHead(f) ==
  IF LoopCond(f)
  THEN [f EXCEPT !.fpc = "inflight", !.requests = @ + 1, !.gets = @ + 1]
  ELSE [f EXCEPT !.fpc = "raised", !.ferr = "Maximum retries reached"]

\* return response.data
OnResolvedRetryBadCode(f, body) ==
  IF body.nil \/ body.code # OkCode
  THEN [f EXCEPT !.fpc = "sleep", !.waits = @ + 1,
                 !.outcomes = Append(@, "ok"),
                 !.responded = TRUE, !.response = body]
  ELSE [f EXCEPT !.fpc = "returned", !.data = body,
                 !.outcomes = Append(@, "ok"),
                 !.responded = TRUE, !.response = body]

OnResolved(f, body) ==
  [f EXCEPT !.fpc = "returned", !.data = body,
            !.outcomes = Append(@, "ok"),
            !.responded = TRUE, !.response = body]

\* if (i === retries - 1) throw error
IsLastAttemptEarly(f) == f.i = f.retries - 2

IsLastAttempt(f) == f.i = f.retries - 1

\* catch (error): rethrow on the last attempt, else start the timer
OnRejectedSleepFirst(f, e) ==
  [f EXCEPT !.fpc = "sleep", !.waits = @ + 1, !.ferr = e,
            !.outcomes = Append(@, "fail")]

OnRejected(f, e) ==
  IF IsLastAttempt(f)
  THEN [f EXCEPT !.fpc = "raised", !.ferr = e, !.outcomes = Append(@, "fail")]
  ELSE [f EXCEPT !.fpc = "sleep", !.waits = @ + 1,
                 !.outcomes = Append(@, "fail")]

\* the timer of setTimeout(resolve, 1000) fires; i++
OnTimerSameAttempt(f) ==
  [f EXCEPT !.fpc = "loop", !.slept = @ + RetryDelayMs]

OnTimer(f) ==
  [f EXCEPT !.fpc = "loop", !.i = @ + 1, !.slept = @ + RetryDelayMs]

AxiosGet(t) ==
  /\ task[t].fpc = "loop"
  /\ task' = [task EXCEPT ![t] = LoopHead(@)]
  /\ UNCHANGED <<seen, nonClient>>

AxiosResolve(t) ==
  /\ task[t].fpc = "inflight"
  /\ \E body \in Bodies(task[t]) :
       task' = [task EXCEPT ![t] = OnResolved(@, body)]
  /\ UNCHANGED <<seen, nonClient>>

AxiosReject(t) ==
  /\ task[t].fpc = "inflight"
  /\ \E e \in Rejections(task[t]) :
       task' = [task EXCEPT ![t] = OnRejected(@, e)]
  /\ UNCHANGED <<seen, nonClient>>

TimerFire(t) ==
  /\ task[t].fpc = "sleep"
  /\ task' = [task EXCEPT ![t] = OnTimer(@)]
  /\ UNCHANGED <<seen, nonClient>>

\* the fetchWithRetry call the frame awaits has settled
Settled(f) == f.fpc \in {"returned", "raised"}

----------------------------------------------------------------------------
(* A direct call of fetchWithRetry: the frame returns what it returns and  *)
(* raises what it raises.                                                  *)

FetchDone(f) ==
  IF f.fpc = "raised"
  THEN Raise(f, f.ferr, "exhausted")
  ELSE Return(f, f.data.days)

CallFetch(t) ==
  /\ task[t].status = "idle"
  /\ \E url \in {"gToHCalendar", "gToH"} :
       task' = [task EXCEPT ![t] = FetchEnter(Start("fetchWithRetry", "fetch"), url)]
  /\ UNCHANGED <<seen, nonClient>>

FetchSettle(t) ==
  /\ task[t].op = "fetchWithRetry" /\ task[t].pc = "fetch" /\ Settled(task[t])
  /\ task' = [task EXCEPT ![t] = FetchDone(@)]
  /\ UNCHANGED <<seen, nonClient>>

----------------------------------------------------------------------------
(* getMonthCalendar, api.ts:116-147                                        *)

\* catch (error) { throw new Error('Failed to fetch calendar data. ...') }
CatchMonth(thrown) == "Failed to fetch calendar data. Please try again later."

\* !data || data.code !== 200 || !Array.isArray(data.data)
InvalidCalendarData(data) ==
  data.nil \/ data.code # OkCode \/ ~data.isArray

MonthAfterFetch(f) ==
  IF f.fpc = "raised"
  THEN Raise(f, CatchMonth(f.ferr), "exhausted")
  ELSE IF InvalidCalendarData(f.data)
       THEN Raise(f, CatchMonth("Invalid calendar data received"), "malformed")
       ELSE Return(f, f.data.days)

CallMonth(t) ==
  /\ task[t].status = "idle"
  /\ task' = [task EXCEPT ![t] =
                FetchEnter(Start("getMonthCalendar", "fetch"), "gToHCalendar")]
  /\ UNCHANGED <<seen, nonClient>>

MonthSettle(t) ==
  /\ task[t].op = "getMonthCalendar" /\ task[t].pc = "fetch" /\ Settled(task[t])
  /\ task' = [task EXCEPT ![t] = MonthAfterFetch(@)]
  /\ UNCHANGED <<seen, nonClient>>

----------------------------------------------------------------------------
(* getPrayerTimes, api.ts:237-321                                          *)

\* catch (error) { throw new Error('Failed to fetch prayer times. ...') }
CatchPrayer(thrown) == "Failed to fetch prayer times. Please try again later."

\* !prayerData?.results
InvalidPrayerData(data) == data.nil \/ ~data.hasResults

\* !hijriData?.data?.hijri
InvalidHijriData(data) == data.nil \/ ~data.hasData \/ ~data.hasHijri

PrayerAfterFetch(f) ==
  IF f.fpc = "raised"
  THEN Raise(f, CatchPrayer(f.ferr), "exhausted")
  ELSE IF InvalidPrayerData(f.data)
       THEN Raise(f, CatchPrayer("Invalid prayer times response format"), "malformed")
       ELSE FetchEnter([f EXCEPT !.pc = "hijri"], "gToH")

PrayerAfterHijri(f) ==
  IF f.fpc = "raised"
  THEN Raise(f, CatchPrayer(f.ferr), "exhausted")
  ELSE IF InvalidHijriData(f.data)
       THEN Raise(f, CatchPrayer("Invalid Hijri date response format"), "malformed")
       ELSE Return(f, <<>>)

CallPrayer(t) ==
  /\ task[t].status = "idle"
  /\ task' = [task EXCEPT ![t] =
                FetchEnter(Start("getPrayerTimes", "prayer"), "prayer_times")]
  /\ UNCHANGED <<seen, nonClient>>

PrayerSettle(t) ==
  /\ task[t].op = "getPrayerTimes" /\ task[t].pc = "prayer" /\ Settled(task[t])
  /\ task' = [task EXCEPT ![t] = PrayerAfterFetch(@)]
  /\ UNCHANGED <<seen, nonClient>>

HijriSettle(t) ==
  /\ task[t].op = "getPrayerTimes" /\ task[t].pc = "hijri" /\ Settled(task[t])
  /\ task' = [task EXCEPT ![t] = PrayerAfterHijri(@)]
  /\ UNCHANGED <<seen, nonClient>>

----------------------------------------------------------------------------
(* findRamadanYear, api.ts:97-113                                          *)

\* Math.floor(gregorianYear - 622 + (gregorianYear - 622) / 32.5): with
\* x = gregorianYear - 622 the argument is x + 2x/65 = 67x/65
HijriApproxTruncated(gregorianYear) ==
  LET x == gregorianYear - 622
  IN IF x >= 0 THEN (67 * x) \div 65 ELSE -((67 * (-x)) \div 65)

HijriApprox(gregorianYear) == (67 * (gregorianYear - 622)) \div 65

\* catch (error): the approximation is returned
ResolveCatchRethrow(f) ==
  [raised |-> TRUE, fellBack |-> FALSE, year |-> NaN]

ResolveCatch(f) ==
  [raised |-> FALSE, fellBack |-> TRUE, year |-> Num(HijriApprox(f.gregorianYear))]

\* response?.code === 200 && response?.data?.hijri
IsConverted(data) ==
  ~data.nil /\ data.code = OkCode /\ data.hasData /\ data.hasHijri

\* the outcome of findRamadanYear once its request has settled
ResolveYear(f) ==
  IF f.fpc = "returned" /\ IsConverted(f.data)
  THEN [raised |-> FALSE, fellBack |-> FALSE, year |-> ParseInt(f.data.year)]
  ELSE ResolveCatch(f)

ResolverDone(f) ==
  LET r == ResolveYear(f)
  IN IF r.raised
     THEN Raise(f, "Failed to convert date", "uncaught")
     ELSE [Return(f, <<>>) EXCEPT !.hijriYear = r.year, !.fellBack = r.fellBack]

\* the Gregorian years findRamadanYear is called with: YearSpan years on
\* each side of 622
YearSpan == 1500

ResolverYears == (622 - YearSpan)..(622 + YearSpan)

CallResolver(t) ==
  /\ task[t].status = "idle"
  /\ \E g \in ResolverYears :
       task' = [task EXCEPT ![t] =
                  FetchEnter([Start("findRamadanYear", "resolve")
                                EXCEPT !.gregorianYear = g], "gToH")]
  /\ UNCHANGED <<seen, nonClient>>

ResolverSettle(t) ==
  /\ task[t].op = "findRamadanYear" /\ task[t].pc = "resolve" /\ Settled(task[t])
  /\ task' = [task EXCEPT ![t] = ResolverDone(@)]
  /\ UNCHANGED <<seen, nonClient>>

----------------------------------------------------------------------------
(* getRamadanCalendar, api.ts:150-234                                      *)

\* catch (error) { throw new Error('Failed to fetch Ramadan calendar. ...') }
CatchRamadan(thrown) == "Failed to fetch Ramadan calendar. Please try again later."

\* isValidCalendarDay, api.ts:59-68
isValidCalendarDay(day) ==
  day.isObject /\ day.gregorian # "absent" /\ day.hijri # "absent"

\* data.data.filter((day) => isValidCalendarDay(day))
ValidDays(days) == SelectSeq(days, isValidCalendarDay)

\* the .map of lines 178-208 reads day.gregorian.weekday.en, month.number, ...
\* and throws a TypeError on a day without these nested objects
MapThrows(days) ==
  \E j \in 1..Len(days) : days[j].gregorian = "shallow" \/ days[j].hijri = "shallow"

MapDay(day) == DayOf(day.n, TRUE, "full", "full", day.year)

\* validDays.filter((day) => day.gregorian.year === gregorianYear.toString())
MatchingDaysAnyYear(days, gregorianYear) ==
  [j \in 1..Len(days) |-> MapDay(days[j])]

MatchingDays(days, gregorianYear) ==
  LET mapped == [j \in 1..Len(days) |-> MapDay(days[j])]
      Matches(day) == day.year = IntToString(gregorianYear)
  IN SelectSeq(mapped, Matches)

MinRamadanDays == 29

\* matchingDays.length >= 29
AcceptsMoreThan(matchingDays) == Len(matchingDays) > MinRamadanDays

AcceptsOneFewer(matchingDays) == Len(matchingDays) >= MinRamadanDays - 1

Accepts(matchingDays) == Len(matchingDays) >= MinRamadanDays

\* data?.code === 200 && Array.isArray(data.data)
IsListing(data) == ~data.nil /\ data.code = OkCode /\ data.isArray

\* the body of the for-of loop up to the request: params.year = year.toString()
RequestCandidate(f, k) ==
  FetchEnter([f EXCEPT !.pc = "candidate", !.k = k,
                       !.requested = Append(@, NumToString(f.yearsToTry[k]))],
             "hijriCalendar")

\* lines 221-229, after the loop
AfterLoop(f) ==
  IF Len(f.ramadanDays) = 0
  THEN Raise(f, CatchRamadan("No Ramadan days found for year"), "notfound")
  ELSE Return(f, f.ramadanDays)

\* the next turn of the for-of loop over yearsToTry
NextCandidate(f) ==
  IF f.k < Len(f.yearsToTry) THEN RequestCandidate(f, f.k + 1) ELSE AfterLoop(f)

\* lines 155-157 and the first turn of the loop
AfterResolveResolvedFirst(f) ==
  LET r == ResolveYear(f)
  IN IF r.raised
     THEN Raise(f, CatchRamadan("Failed to convert date"), "uncaught")
     ELSE RequestCandidate(
            [f EXCEPT !.hijriYear = r.year, !.fellBack = r.fellBack,
                      !.yearsToTry = <<r.year, NumPlus(r.year, -1), NumPlus(r.year, 1)>>,
                      !.ramadanDays = <<>>], 1)

AfterResolve(f) ==
  LET r == ResolveYear(f)
  IN IF r.raised
     THEN Raise(f, CatchRamadan("Failed to convert date"), "uncaught")
     ELSE RequestCandidate(
            [f EXCEPT !.hijriYear = r.year, !.fellBack = r.fellBack,
                      !.yearsToTry = <<NumPlus(r.year, -1), r.year, NumPlus(r.year, 1)>>,
                      !.ramadanDays = <<>>], 1)

\* lines 175-219 once the request of a candidate has settled
AfterCandidateSkipsFailed(f) ==
  IF f.fpc = "raised"
  THEN NextCandidate(f)
  ELSE IF IsListing(f.data)
       THEN IF MapThrows(ValidDays(f.data.days))
            THEN Raise(f, CatchRamadan("TypeError"), "malformed")
            ELSE LET matchingDays ==
                       MatchingDays(ValidDays(f.data.days), f.gregorianYear)
                 IN IF Accepts(matchingDays)
                    THEN AfterLoop([f EXCEPT !.ramadanDays = matchingDays])
                    ELSE NextCandidate(f)
       ELSE NextCandidate(f)

AfterCandidate(f) ==
  IF f.fpc = "raised"
  THEN Raise(f, CatchRamadan(f.ferr), "exhausted")
  ELSE IF IsListing(f.data)
       THEN IF MapThrows(ValidDays(f.data.days))
            THEN Raise(f, CatchRamadan("TypeError"), "malformed")
            ELSE LET matchingDays ==
                       MatchingDays(ValidDays(f.data.days), f.gregorianYear)
                 IN IF Accepts(matchingDays)
                    THEN AfterLoop([f EXCEPT !.ramadanDays = matchingDays])
                    ELSE NextCandidate(f)
       ELSE NextCandidate(f)

\* the years the Ramadan calendar is asked for: the year the view starts
\* with and the YearChoices years after it
FirstYear == 2025

YearChoices == 1

RamadanYears == FirstYear..(FirstYear + YearChoices)

\* DEFAULT_LOCATION.hijriAdjustment, and the + 1 of verifyRamadanDates
Adjustments == {0, 1}

CallRamadan(t) ==
  /\ task[t].status = "idle"
  /\ \E g \in RamadanYears : \E adjustment \in Adjustments :
       task' = [task EXCEPT ![t] =
                  FetchEnter([Start("getRamadanCalendar", "resolve")
                                EXCEPT !.gregorianYear = g,
                                       !.adjustment = adjustment], "gToH")]
  /\ UNCHANGED <<seen, nonClient>>

RamadanResolved(t) ==
  /\ task[t].op = "getRamadanCalendar" /\ task[t].pc = "resolve" /\ Settled(task[t])
  /\ task' = [task EXCEPT ![t] = AfterResolve(@)]
  /\ UNCHANGED <<seen, nonClient>>

\* history: the place of the call t among the calls that have settled
Ranked(f, t) ==
  IF f.status \in {"returned", "raised"}
  THEN [f EXCEPT !.rank =
          1 + Cardinality({u \in Tasks \ {t} :
                             task[u].status \in {"returned", "raised"}})]
  ELSE f

CandidateSettle(t) ==
  /\ task[t].op = "getRamadanCalendar" /\ task[t].pc = "candidate" /\ Settled(task[t])
  /\ task' = [task EXCEPT ![t] = Ranked(AfterCandidate(@), t)]
  /\ UNCHANGED <<seen, nonClient>>

----------------------------------------------------------------------------
(* verifyRamadanDates, api.ts:324-347                                      *)
(* verify.pc: idle, awaiting (at the await of Promise.all) or done;        *)
(* verify.year: the argument; raised: the call threw; datesMatch,          *)
(* hasDates, primaryDates, secondaryDates: the result returned.            *)

\* DEFAULT_LOCATION.hijriAdjustment
DefaultAdjustment == 0

IdleVerify ==
  [pc |-> "idle", year |-> 0, raised |-> FALSE, datesMatch |-> FALSE,
   hasDates |-> FALSE, primaryDates |-> <<>>, secondaryDates |-> <<>>]

\* a call of getRamadanCalendar(year, adjustment) up to its first await: the
\* conversion request of findRamadanYear is issued
CallWindow(year, adjustment) ==
  LoopHead(FetchEnter([Start("getRamadanCalendar", "resolve")
                         EXCEPT !.gregorianYear = year, !.adjustment = adjustment,
                                !.caller = "verifyRamadanDates"], "gToH"))

\* Promise.all([p, s]): rejected as soon as one of the two is, fulfilled with
\* the two values in the order of the arguments when both are
PromiseAllByCompletion(p, s) ==
  IF p.status = "raised" \/ s.status = "raised"
  THEN [settled |-> TRUE, rejected |-> TRUE, values |-> <<>>]
  ELSE IF p.status = "returned" /\ s.status = "returned"
       THEN [settled |-> TRUE, rejected |-> FALSE,
             values |-> IF s.rank < p.rank THEN <<s.value, p.value>>
                        ELSE <<p.value, s.value>>]
       ELSE [settled |-> FALSE, rejected |-> FALSE, values |-> <<>>]

PromiseAll(p, s) ==
  IF p.status = "raised" \/ s.status = "raised"
  THEN [settled |-> TRUE, rejected |-> TRUE, values |-> <<>>]
  ELSE IF p.status = "returned" /\ s.status = "returned"
       THEN [settled |-> TRUE, rejected |-> FALSE, values |-> <<p.value, s.value>>]
       ELSE [settled |-> FALSE, rejected |-> FALSE, values |-> <<>>]

\* primaryDaysCount === 29 || primaryDaysCount === 30
DatesMatch(primaryDaysCount) == primaryDaysCount = 29 \/ primaryDaysCount = 30

\* catch (error) { return { datesMatch: false } }
VerifyCatchRethrow(v) == [v EXCEPT !.pc = "done", !.raised = TRUE]

VerifyCatch(v) == [v EXCEPT !.pc = "done", !.datesMatch = FALSE]

\* lines 331-341, with [primaryData, secondaryData] the values of Promise.all;
\* ramadanDays is always an array, so line 331 never throws
VerifyReturnCompared(v, primaryData, secondaryData) ==
  [v EXCEPT !.pc = "done", !.datesMatch = Len(primaryData) = Len(secondaryData),
            !.hasDates = TRUE, !.primaryDates = primaryData,
            !.secondaryDates = secondaryData]

VerifyReturn(v, primaryData, secondaryData) ==
  [v EXCEPT !.pc = "done", !.datesMatch = DatesMatch(Len(primaryData)),
            !.hasDates = TRUE, !.primaryDates = primaryData,
            !.secondaryDates = secondaryData]

\* the function once Promise.all has settled
VerifyDone(v, all) ==
  IF all.rejected THEN VerifyCatch(v)
  ELSE VerifyReturn(v, all.values[1], all.values[2])

\* the call: both getRamadanCalendar calls are made, then Promise.all awaited
CallVerify ==
  /\ verify.pc = "idle" /\ \A t \in Tasks : task[t].status = "idle"
  /\ \E year \in {FirstYear} :
       /\ task' = [t \in Tasks |->
                     IF t = "primary" THEN CallWindow(year, DefaultAdjustment)
                     ELSE CallWindow(year, DefaultAdjustment + 1)]
       /\ verify' = [IdleVerify EXCEPT !.pc = "awaiting", !.year = year]
  /\ UNCHANGED <<seen, norm, built, views>>

\* the same call, made while the provider is unreliable
CallVerifyUnreliable ==
  /\ verify.pc = "idle" /\ \A t \in Tasks : task[t].status = "idle"
  /\ \E year \in {FirstYear} :
       /\ task' = [t \in Tasks |->
                     [(IF t = "primary" THEN CallWindow(year, DefaultAdjustment)
                       ELSE CallWindow(year, DefaultAdjustment + 1))
                        EXCEPT !.provider = "unreliable"]]
       /\ verify' = [IdleVerify EXCEPT !.pc = "awaiting", !.year = year]
  /\ UNCHANGED <<seen, norm, built, views>>

VerifySettle ==
  /\ verify.pc = "awaiting"
  /\ PromiseAll(task["primary"], task["secondary"]).settled
  /\ verify' = VerifyDone(verify, PromiseAll(task["primary"], task["secondary"]))
  /\ UNCHANGED <<task, seen, norm, built, views>>

----------------------------------------------------------------------------
(* The countdown of TodayPrayers, TodayPrayers.tsx:37-114                  *)
(* An instant is a number of milliseconds since local midnight of its day; *)
(* a Date is such a number counted from the midnight of the day of now     *)
(* (so tomorrow's dates are DayMs and more), or NaN for an Invalid Date.   *)

PrayerOrder == <<"Fajr", "Dhuhr", "Asr", "Maghrib", "Isha">>

DayMs == 86400000

\* one or two decimal digits
IsShortNumber(s) == Len(s) \in {1, 2} /\ \A j \in 1..Len(s) : IsDigit(s[j])

\* parse(`${day} ${time}`, 'yyyy-MM-dd HH:mm', new Date()) of date-fns, for a
\* day dayStart milliseconds after the midnight of today: the Date of that
\* time on that day, an Invalid Date when time is not hours 0..23 and
\* minutes 0..59
parse(dayStart, time) ==
  LET pieces == Split(time, ":")
      hours == NumberAt(pieces, 1)
      minutes == NumberAt(pieces, 2)
  IN IF /\ Len(pieces) = 2 /\ IsShortNumber(pieces[1]) /\ IsShortNumber(pieces[2])
        /\ hours.v <= 23 /\ minutes.v <= 59
     THEN Num(dayStart + (hours.v * 60 + minutes.v) * 60000)
     ELSE NaN

\* prayerDateTime > now
IsAfterOrAt(prayerDateTime, now) == ~prayerDateTime.nan /\ prayerDateTime.v >= now

IsAfter(prayerDateTime, now) == ~prayerDateTime.nan /\ prayerDateTime.v > now

\* the remainder of JavaScript: it has the sign of the dividend
Rem(a, b) == IF a >= 0 THEN a % b ELSE -((-a) % b)

\* lines 98-100
DecomposeRounded(diff) ==
  [hours |-> diff \div (1000 * 60 * 60),
   minutes |-> Rem(diff, 1000 * 60 * 60) \div (1000 * 60),
   seconds |-> (Rem(diff, 1000 * 60) + 500) \div 1000]

Decompose(diff) ==
  [hours |-> diff \div (1000 * 60 * 60),
   minutes |-> Rem(diff, 1000 * 60 * 60) \div (1000 * 60),
   seconds |-> Rem(diff, 1000 * 60) \div 1000]

\* lines 102-106; every part of an Invalid Date's difference prints as NaN
CountdownText(diff) ==
  IF diff.nan
  THEN <<"N", "a", "N", ":", "N", "a", "N", ":", "N", "a", "N">>
  ELSE LET d == Decompose(diff.v)
       IN PadStart2(IntToString(d.hours)) \o <<":">>
            \o PadStart2(IntToString(d.minutes)) \o <<":">>
            \o PadStart2(IntToString(d.seconds))

\* the for-of loop of lines 58-77 from the place j of prayers on: the first
\* prayer with a time that is after now, or none
RECURSIVE FirstAfterNoBreak(_, _, _)
FirstAfterNoBreak(times, now, j) ==
  IF j > Len(PrayerOrder) THEN [found |-> FALSE, name |-> "", time |-> NaN]
  ELSE LET name == PrayerOrder[j]
           prayerDateTime == parse(0, times[name])
           later == FirstAfterNoBreak(times, now, j + 1)
       IN IF later.found THEN later
          ELSE IF times[name] # <<>> /\ IsAfter(prayerDateTime, now)
               THEN [found |-> TRUE, name |-> name, time |-> prayerDateTime]
               ELSE later

RECURSIVE FirstAfter(_, _, _)
FirstAfter(times, now, j) ==
  IF j > Len(PrayerOrder) THEN [found |-> FALSE, name |-> "", time |-> NaN]
  ELSE LET name == PrayerOrder[j]
           prayerDateTime == parse(0, times[name])
       IN IF times[name] # <<>> /\ IsAfter(prayerDateTime, now)
          THEN [found |-> TRUE, name |-> name, time |-> prayerDateTime]
          ELSE FirstAfter(times, now, j + 1)

\* lines 55-93: nextPrayerTime and nextPrayerName
NextPrayerOfSameDay(times, now) ==
  LET today_ == FirstAfter(times, now, 1)
  IN IF ~today_.found /\ times["Fajr"] # <<>>
     THEN [found |-> TRUE, name |-> "Fajr", time |-> parse(0, times["Fajr"])]
     ELSE today_

NextPrayerOf(times, now) ==
  LET today_ == FirstAfter(times, now, 1)
  IN IF ~today_.found /\ times["Fajr"] # <<>>
     THEN [found |-> TRUE, name |-> "Fajr", time |-> parse(DayMs, times["Fajr"])]
     ELSE today_

\* updateNextPrayer, lines 40-108, run at the instant now on the view v; the
\* state setters of a view that is torn down do nothing
updateNextPrayer(v, now) ==
  LET next == NextPrayerOf(v.times, now)
      diff == IF next.time.nan THEN NaN ELSE Num(next.time.v - now)
  IN IF next.found /\ v.mounted
     THEN [v EXCEPT !.nextPrayer = next.name, !.countdown = CountdownText(diff),
                    !.now = now, !.updated = TRUE, !.set = TRUE,
                    !.target = next.time, !.diff = diff]
     ELSE [v EXCEPT !.now = now, !.updated = TRUE, !.set = FALSE]

\* the Timing Sets getPrayerTimes is taken to deliver: per prayer no time
\* (the empty string) or one of a few times
NoTimes == [name \in {"Fajr", "Dhuhr", "Asr", "Maghrib", "Isha"} |-> <<>>]

Clock(h, m) == HHMM(h, m)

TimeChoices(name) ==
  CASE name = "Fajr"    -> { <<>>, Clock(4, 30), <<"z", "z">> }
    [] name = "Dhuhr"   -> { <<>>, Clock(12, 15) }
    [] name = "Asr"     -> { Clock(15, 30) }
    [] name = "Maghrib" -> { Clock(18, 0) }
    [] OTHER            -> { <<>>, Clock(19, 30), Clock(0, 10) }

\* the Timing Sets built of these times, and the one without any time
TimingSets ==
  { times \in [DOMAIN NoTimes -> UNION { TimeChoices(name) : name \in DOMAIN NoTimes }] :
      \A name \in DOMAIN NoTimes : times[name] \in TimeChoices(name) }
    \cup { NoTimes }

\* the instants a tick is taken to happen at: Offsets milliseconds from
\* midnight, noon, the times above and the last minute of the day
Offsets == {-1001, -1, 0, 1, 999}

Marks == { <<0, 0>>, <<4, 30>>, <<12, 0>>, <<12, 15>>, <<19, 30>>, <<23, 59>> }

Instants ==
  { i \in { (mark[1] * 60 + mark[2]) * 60000 + o : mark \in Marks, o \in Offsets } :
      i >= 0 /\ i < DayMs }

\* a view is mounted at most MaxMounts times
MaxMounts == 2

\* mounted: the view is on screen; fetching: fetchTodayPrayers is awaiting
\* getPrayerTimes; loading, error, hasTimes/times (prayerTimes), nextPrayer,
\* countdown: the state of the component; interval: the timer the live
\* effect holds (0 for none); timers: the interval timers that are live;
\* made: the timers created so far.  History: mounts; now, target, diff, set,
\* updated (the last run of updateNextPrayer); stale (a timer of the view
\* has fired after the view was torn down); day (the day of the last run,
\* counted from the day of the first one).
IdleToday ==
  [mounted |-> FALSE, fetching |-> FALSE, loading |-> TRUE, error |-> "",
   hasTimes |-> FALSE, times |-> NoTimes, nextPrayer |-> "", countdown |-> <<>>,
   interval |-> 0, timers |-> {}, made |-> 0, mounts |-> 0,
   now |-> 0, target |-> NaN, diff |-> NaN, set |-> FALSE, updated |-> FALSE,
   stale |-> FALSE, day |-> 0]

\* clearInterval(id): the timer is no longer live; no effect for a timer
\* that is not live
clearInterval(timers, id) == timers \ {id}

\* the cleanup of the countdown effect, line 113
CleanupKeepsTimer(v) == [v EXCEPT !.interval = 0]

Cleanup(v) ==
  IF v.interval # 0
  THEN [v EXCEPT !.timers = clearInterval(@, v.interval), !.interval = 0]
  ELSE v

\* the countdown effect, lines 37-114, run after a render that changed
\* prayerTimes: the cleanup of the effect before, then the effect
CountdownEffect(v, now) ==
  LET w == Cleanup(v)
  IN IF ~w.hasTimes THEN w
     ELSE [updateNextPrayer(w, now) EXCEPT !.interval = w.made + 1,
                                           !.timers = @ \cup {w.made + 1},
                                           !.made = @ + 1]

\* the view is mounted: the state is the initial one, fetchTodayPrayers calls
\* getPrayerTimes and the countdown effect returns at line 38
MountToday ==
  /\ ~today.mounted /\ ~calendar.mounted /\ today.mounts < MaxMounts
  /\ today' = [IdleToday EXCEPT !.mounted = TRUE, !.fetching = TRUE,
                                !.timers = today.timers, !.made = today.made,
                                !.mounts = today.mounts + 1, !.stale = today.stale]
  /\ UNCHANGED <<nonView, calendar, grid, ramadan>>

\* getPrayerTimes returns: lines 19-27, then the countdown effect
TodayFetched ==
  /\ today.mounted /\ today.fetching
  /\ \E times \in TimingSets : \E now \in Instants :
       today' = CountdownEffect([today EXCEPT !.fetching = FALSE, !.hasTimes = TRUE,
                                              !.times = times, !.loading = FALSE],
                                now)
  /\ UNCHANGED <<nonView, calendar, grid, ramadan>>

\* getPrayerTimes throws: lines 28-31
TodayFetchFailed ==
  /\ today.mounted /\ today.fetching
  /\ today' = [today EXCEPT !.fetching = FALSE, !.loading = FALSE,
                            !.error = "Failed to fetch prayer times"]
  /\ UNCHANGED <<nonView, calendar, grid, ramadan>>

\* a live timer of the view fires: updateNextPrayer runs
TodayTick ==
  /\ \E id \in today.timers : \E now \in Instants :
       today' = [updateNextPrayer(today, now) EXCEPT
                   !.stale = @ \/ ~today.mounted]
  /\ UNCHANGED <<nonView, calendar, grid, ramadan>>

\* the countdown is followed for MaxTickDays days after the day of its
\* first run
MaxTickDays == 1

\* a live timer of the view fires, the clock of the browser having gone on
\* since the run before: later the same day, or a later day
TodayTickLater ==
  /\ \E id \in today.timers : \E day \in today.day..MaxTickDays : \E now \in Instants :
       /\ day = today.day => now >= today.now
       /\ today' = [updateNextPrayer(today, now) EXCEPT
                      !.day = day, !.stale = @ \/ ~today.mounted]
  /\ UNCHANGED <<nonView, calendar, grid, ramadan>>

\* the view is torn down: the cleanup of the countdown effect runs and the
\* state of the component is gone; what a getPrayerTimes call still in
\* flight delivers is dropped
UnmountToday ==
  /\ today.mounted
  /\ today' = [IdleToday EXCEPT !.timers = Cleanup(today).timers,
                                !.made = today.made, !.mounts = today.mounts,
                                !.stale = today.stale]
  /\ UNCHANGED <<nonView, calendar, grid, ramadan>>

----------------------------------------------------------------------------
(* The month grid of Calendar, Calendar.tsx:82-85, 131-204 and 238-260     *)
(* A month is its distance in months from the month of new Date(), and the *)
(* days of a month are stood for by the month.  grid.currentDate,          *)
(* calendarDays, loading and error are the state of the component as it    *)
(* is rendered; queued: the setLoading(true) and setError('') of an effect *)
(* are not rendered yet (React renders the updates made inside an effect   *)
(* in a later task than the click that caused the effect, so until then    *)
(* the screen of before is still shown); fetches: the months of the calls  *)
(* of fetchCalendarData awaiting getMonthCalendar, in the order they were  *)
(* started.  History: handled (the month of the last response that was     *)
(* received and mapped), started (the month of the last call started).     *)

\* new Date()
NewDate == 0

\* the buttons are taken to lead at most MaxMonths months away
MaxMonths == 1

\* at most MaxFetches calls of fetchCalendarData are in flight
MaxFetches == 2

\* eachDayOfInterval({ start, end }) of the month
DaysOfMonth(month) == <<month>>

IdleGrid ==
  [currentDate |-> NewDate, calendarDays |-> <<>>, loading |-> TRUE, error |-> "",
   queued |-> FALSE, fetches |-> <<>>, handled |-> <<>>, started |-> <<>>]

\* lines 175-204: what is on screen
Screen(g) ==
  IF g.loading THEN "loading" ELSE IF g.error # "" THEN "error" ELSE "calendar"

RemoveAt(s, j) == SubSeq(s, 1, j - 1) \o SubSeq(s, j + 1, Len(s))

\* the effect of lines 132-171 after a render with a new currentDate:
\* fetchCalendarData runs up to its await, for the month of currentDate
FetchCalendarData(g) ==
  [g EXCEPT !.fetches = Append(@, g.currentDate), !.started = <<g.currentDate>>,
            !.queued = g.loading # TRUE \/ g.error # ""]

\* the updates of lines 135-136 are rendered
RenderQueued(g) ==
  IF g.queued THEN [g EXCEPT !.loading = TRUE, !.error = "", !.queued = FALSE] ELSE g

\* lines 142-162, in the call made for month: the days are those of the
\* currentDate of that call
MonthAppliedIfCurrent(g, month) ==
  IF month = g.currentDate
  THEN [RenderQueued(g) EXCEPT !.calendarDays = DaysOfMonth(month), !.loading = FALSE,
                               !.handled = <<month>>]
  ELSE [g EXCEPT !.handled = <<month>>]

MonthApplied(g, month) ==
  [RenderQueued(g) EXCEPT !.calendarDays = DaysOfMonth(month), !.loading = FALSE,
                          !.handled = <<month>>]

\* lines 163-167
MonthFailed(g) ==
  [RenderQueued(g) EXCEPT !.error = "Failed to fetch calendar data", !.loading = FALSE]

\* Next Month, lines 254-259
NextMonth ==
  /\ calendar.mounted /\ Screen(grid) = "calendar"
  /\ Len(grid.fetches) < MaxFetches /\ grid.currentDate < MaxMonths
  /\ grid' = FetchCalendarData([grid EXCEPT !.currentDate = @ + 1])
  /\ UNCHANGED <<nonView, today, calendar, ramadan>>

\* Previous Month, lines 240-245
PreviousMonth ==
  /\ calendar.mounted /\ Screen(grid) = "calendar"
  /\ Len(grid.fetches) < MaxFetches /\ grid.currentDate > -MaxMonths
  /\ grid' = FetchCalendarData([grid EXCEPT !.currentDate = @ - 1])
  /\ UNCHANGED <<nonView, today, calendar, ramadan>>

\* Retry, lines 191-200: new Date() is a new object, so the effect runs again
GridRetry ==
  /\ calendar.mounted /\ Screen(grid) = "error"
  /\ Len(grid.fetches) < MaxFetches
  /\ grid' = FetchCalendarData([grid EXCEPT !.error = "", !.loading = TRUE,
                                            !.currentDate = NewDate])
  /\ UNCHANGED <<nonView, today, calendar, ramadan>>

\* the updates an effect made are rendered
GridRender ==
  /\ calendar.mounted /\ grid.queued
  /\ grid' = RenderQueued(grid)
  /\ UNCHANGED <<nonView, today, calendar, ramadan>>

\* getMonthCalendar returns to a call of fetchCalendarData
MonthFetched ==
  /\ calendar.mounted
  /\ \E j \in 1..Len(grid.fetches) :
       grid' = MonthApplied([grid EXCEPT !.fetches = RemoveAt(@, j)], grid.fetches[j])
  /\ UNCHANGED <<nonView, today, calendar, ramadan>>

\* getMonthCalendar throws in a call of fetchCalendarData
MonthFetchFailed ==
  /\ calendar.mounted
  /\ \E j \in 1..Len(grid.fetches) :
       grid' = MonthFailed([grid EXCEPT !.fetches = RemoveAt(@, j)])
  /\ UNCHANGED <<nonView, today, calendar, ramadan>>

----------------------------------------------------------------------------
(* The prayer list of Calendar, Calendar.tsx:28-129                        *)

\* parseTime, lines 28-52: null (NaN here) or the Date of today at the hours
\* and minutes of timeStr, which new Date(y, m, d, hours, minutes) does not
\* limit to 23 and 59
parseTime(timeStr) ==
  LET pieces == Split(timeStr, ":")
      hours == NumberAt(pieces, 1)
      minutes == NumberAt(pieces, 2)
  IN IF timeStr = <<>> \/ Trim(timeStr) = <<>> THEN NaN
     ELSE IF hours.nan \/ minutes.nan THEN NaN
     ELSE Num(hours.v * 3600000 + minutes.v * 60000)

\* lines 68-74
RemainingText(hours, minutes, seconds) ==
  IF hours > 0
  THEN IntToString(hours) \o <<"h", " ">> \o IntToString(minutes) \o <<"m", " ">>
         \o IntToString(seconds) \o <<"s">>
  ELSE IF minutes > 0
       THEN IntToString(minutes) \o <<"m", " ">> \o IntToString(seconds) \o <<"s">>
       ELSE IntToString(seconds) \o <<"s">>

\* getTimeRemaining, lines 54-79, at the instant now
getTimeRemaining(prayerTime, now) ==
  LET prayerDate == parseTime(prayerTime)
      d == Decompose(prayerDate.v - now)
  IN IF prayerDate.nan \/ prayerDate.v <= now THEN <<>>
     ELSE RemainingText(d.hours, d.minutes, d.seconds)

CalendarOrder == <<"Fajr", "Sunrise", "Dhuhr", "Asr", "Maghrib", "Isha">>

\* lines 95-102: the prayers with a time
PrayersOf(timings) ==
  LET all == [j \in 1..Len(CalendarOrder) |->
                [name |-> CalendarOrder[j], time |-> timings[CalendarOrder[j]]]]
      HasTime(prayer) == prayer.time # <<>>
  IN SelectSeq(all, HasTime)

\* lines 105-118: the map over prayers from the place j on
RECURSIVE UpdatedPrayers(_, _, _, _)
UpdatedPrayers(prayers, now, j, foundNext) ==
  IF j > Len(prayers) THEN <<>>
  ELSE LET remaining == getTimeRemaining(prayers[j].time, now)
           isNext == ~foundNext /\ remaining # <<>>
       IN <<[name |-> prayers[j].name, time |-> prayers[j].time,
             timeRemaining |-> remaining, isNext |-> isNext]>>
            \o UpdatedPrayers(prayers, now, j + 1, foundNext \/ isNext)

\* the timings getPrayerTimes is taken to deliver to Calendar: a Timing Set
\* with a Dhuhr time and the Isha time 19:30, and a Sunrise time or none
CalendarTimings ==
  { [name \in {"Fajr", "Sunrise", "Dhuhr", "Asr", "Maghrib", "Isha"} |->
       IF name = "Sunrise" THEN sunrise ELSE times[name]] :
      times \in { t \in TimingSets : t["Dhuhr"] # <<>> /\ t["Isha"] = Clock(19, 30) },
      sunrise \in { <<>>, Clock(6, 45) } }

\* the instants Calendar is taken to compute at: those around 12:15 and the
\* millisecond before 06:45
CalendarInstants ==
  { (12 * 60 + 15) * 60000 + o : o \in Offsets } \cup { (6 * 60 + 45) * 60000 - 1 }

\* at most MaxPending calls of fetchPrayerTimes are in flight
MaxPending == 2

\* mounted; pending: the calls of fetchPrayerTimes awaiting getPrayerTimes;
\* prayerTimes: the state of the component; interval, timers, made, mounts,
\* stale as for TodayPrayers; now: the instant of the last computation;
\* orphans: the calls of fetchPrayerTimes still awaiting getPrayerTimes
\* whose view has been torn down; late: one of these has resumed
IdleCalendar ==
  [mounted |-> FALSE, pending |-> 0, prayerTimes |-> <<>>,
   interval |-> 0, timers |-> {}, made |-> 0, mounts |-> 0, now |-> 0,
   stale |-> FALSE, orphans |-> 0, late |-> FALSE]

\* setPrayerTimes(updatedPrayers), line 120, called by a run of
\* fetchPrayerTimes that computed at the instant now; alive: the view the
\* run belongs to is still mounted.  React drops the update of a component
\* that is unmounted, and a view mounted later has a state of its own.
SetPrayerTimesOfAnyView(v, alive, updatedPrayers, now) ==
  [v EXCEPT !.prayerTimes = updatedPrayers, !.now = now]

SetPrayerTimes(v, alive, updatedPrayers, now) ==
  IF alive THEN [v EXCEPT !.prayerTimes = updatedPrayers, !.now = now] ELSE v

\* the cleanup of the effect, line 128
CalendarCleanup(v) ==
  IF v.interval # 0
  THEN [v EXCEPT !.timers = clearInterval(@, v.interval), !.interval = 0]
  ELSE v

\* the view is mounted: the effect of lines 89-129 calls fetchPrayerTimes and
\* starts the timer, and the effect of lines 132-171 calls fetchCalendarData
MountCalendar ==
  /\ ~calendar.mounted /\ ~today.mounted /\ calendar.mounts < MaxMounts
  /\ calendar' = [IdleCalendar EXCEPT !.mounted = TRUE, !.pending = 1,
                                      !.interval = calendar.made + 1,
                                      !.timers = calendar.timers \cup {calendar.made + 1},
                                      !.made = calendar.made + 1,
                                      !.mounts = calendar.mounts + 1,
                                      !.stale = calendar.stale,
                                      !.orphans = calendar.orphans,
                                      !.late = calendar.late]
  /\ grid' = FetchCalendarData(IdleGrid)
  /\ UNCHANGED <<nonView, today, ramadan>>

\* a live timer of the view fires: fetchPrayerTimes calls getPrayerTimes
CalendarTick ==
  /\ calendar.pending + calendar.orphans < MaxPending
  /\ \E id \in calendar.timers :
       calendar' = [calendar EXCEPT !.pending = IF calendar.mounted THEN @ + 1 ELSE @,
                                    !.stale = @ \/ ~calendar.mounted]
  /\ UNCHANGED <<nonView, today, grid, ramadan>>

\* getPrayerTimes returns to fetchPrayerTimes: lines 93-120
CalendarFetched ==
  /\ calendar.mounted /\ calendar.pending > 0
  /\ \E timings \in CalendarTimings : \E now \in CalendarInstants :
       calendar' = SetPrayerTimes([calendar EXCEPT !.pending = @ - 1], TRUE,
                                  UpdatedPrayers(PrayersOf(timings), now, 1, FALSE), now)
  /\ UNCHANGED <<nonView, today, grid, ramadan>>

\* getPrayerTimes throws: lines 121-123
CalendarFetchFailed ==
  /\ calendar.mounted /\ calendar.pending > 0
  /\ calendar' = [calendar EXCEPT !.pending = @ - 1]
  /\ UNCHANGED <<nonView, today, grid, ramadan>>

\* getPrayerTimes returns to a run of fetchPrayerTimes whose view has been
\* torn down: lines 93-120 run all the same
CalendarLateFetched ==
  /\ calendar.orphans > 0
  /\ \E timings \in CalendarTimings : \E now \in CalendarInstants :
       calendar' = SetPrayerTimes([calendar EXCEPT !.orphans = @ - 1, !.late = TRUE],
                                  FALSE,
                                  UpdatedPrayers(PrayersOf(timings), now, 1, FALSE), now)
  /\ UNCHANGED <<nonView, today, grid, ramadan>>

\* getPrayerTimes throws in such a run: lines 121-123
CalendarLateFailed ==
  /\ calendar.orphans > 0
  /\ calendar' = [calendar EXCEPT !.orphans = @ - 1, !.late = TRUE]
  /\ UNCHANGED <<nonView, today, grid, ramadan>>

\* the view is torn down: the cleanup runs and the state of the component is
\* gone; the calls still in flight go on without their view
TeardownCalendar ==
  /\ calendar.mounted
  /\ calendar' = [IdleCalendar EXCEPT !.timers = CalendarCleanup(calendar).timers,
                                      !.made = calendar.made,
                                      !.mounts = calendar.mounts,
                                      !.stale = calendar.stale,
                                      !.orphans = calendar.orphans + calendar.pending,
                                      !.late = calendar.late]
  /\ grid' = IdleGrid
  /\ UNCHANGED <<nonView, today, ramadan>>

\* the same, the calls still in flight being followed no further: what they
\* deliver is dropped
UnmountCalendar ==
  /\ calendar.mounted
  /\ calendar' = [IdleCalendar EXCEPT !.timers = CalendarCleanup(calendar).timers,
                                      !.made = calendar.made,
                                      !.mounts = calendar.mounts,
                                      !.stale = calendar.stale]
  /\ grid' = IdleGrid
  /\ UNCHANGED <<nonView, today, ramadan>>

----------------------------------------------------------------------------
(* The RamadanCalendar view, part_000                                      *)
(* ramadan.selectedYear, loading, error, verificationStatus and            *)
(* ramadanDays are the state of the component.  A fetch cycle is one run   *)
(* of fetchCalendar; its frame holds its place (pc: "verify" while it      *)
(* awaits verifyRamadanDates, "calendar" while it awaits                   *)
(* getRamadanCalendar, "days" while it awaits the getPrayerTimes of the    *)
(* day at place i + 1 of its window), the selectedYear and the isMounted   *)
(* of its effect, and formattedDays.  cycles["current"] is the cycle of    *)
(* the last run of the effect and cycles["old"] one of an earlier run      *)
(* that is still in flight.  timers: the years the pending timeouts of     *)
(* Retry will select.  History: datesMatch and skipped in a frame;         *)
(* staleEnded (a cycle has resumed after the cleanup of its effect) and    *)
(* staleWrote (and has then changed the state of the component).           *)

Slots == {"current", "old"}

\* the buttons are taken to lead at most YearReach years away from 2025
YearReach == 1

\* the windows getRamadanCalendar is taken to return to the view have one
\* day or ViewDays days
ViewDays == 6

\* at most MaxSkips calls of getPrayerTimes fail in one cycle
MaxSkips == 1

\* the day of a window of the view whose getPrayerTimes is taken to be able
\* to fail is the second; in a longer window it is any day
CanFail(c) == Len(c.window) > ViewDays \/ c.i = 1

\* at most MaxTimers timeouts of Retry are pending
MaxTimers == 1

\* line 152: the years of the select
YearOptions == { 2020 + i : i \in 0..10 }

\* the year taken to be picked in the select: the last
YearPicks == { y \in YearOptions : \A z \in YearOptions : z <= y }

IdleCycle ==
  [pc |-> "idle", year |-> 0, isMounted |-> FALSE, datesMatch |-> FALSE,
   window |-> <<>>, i |-> 0, formattedDays |-> <<>>, skipped |-> 0]

IdleRamadan ==
  [mounted |-> FALSE, selectedYear |-> FirstYear, loading |-> TRUE,
   error |-> "", verificationStatus |-> "pending", ramadanDays |-> <<>>,
   cycles |-> [s \in Slots |-> IdleCycle], timers |-> {},
   staleEnded |-> FALSE, staleWrote |-> FALSE]

\* lines 102-134: what is on screen
RamadanScreen(v) ==
  IF v.loading /\ v.ramadanDays = <<>> THEN "loading"
  ELSE IF v.error # "" THEN "error" ELSE "calendar"

\* what the view shows of a cycle
Display(v) == <<v.ramadanDays, v.error, v.loading, v.verificationStatus>>

\* the outcomes of verifyRamadanDates(year) and the windows of
\* getRamadanCalendar(year): the provider has no listing with days of the
\* year 0, so for it the verification fails and there is no window
MatchesOf(year) == IF year = 0 THEN { FALSE } ELSE BOOLEAN

\* a window of len days, the days lead + 1 .. lead + len of a listing
Window(year, len, lead) == [j \in 1..len |-> Day(lead + j, IntToString(year))]

WindowsOf(year) ==
  IF year = 0 THEN {} ELSE { Window(year, len, 0) : len \in {1, ViewDays} }

CalendarError == "Failed to fetch Ramadan calendar. Please try again later."

\* a frame is free for the next run of the effect
CanStart(v) == \E s \in Slots : v.cycles[s].pc = "idle"

\* the effect of lines 14-100 after a render with a new selectedYear: the
\* cleanup of the run before (line 98), then fetchCalendar up to its first
\* await (lines 15-25)
FetchCalendar(v) ==
  LET current == v.cycles["current"]
      old == IF current.pc = "idle" THEN v.cycles["old"]
             ELSE [current EXCEPT !.isMounted = FALSE]
      new == [IdleCycle EXCEPT !.pc = "verify", !.year = v.selectedYear,
                               !.isMounted = TRUE]
  IN [v EXCEPT !.cycles = [s \in Slots |-> IF s = "old" THEN old ELSE new],
               !.loading = TRUE, !.error = "", !.verificationStatus = "pending"]

\* setSelectedYear(year) and the render after it: the effect runs when
\* selectedYear has changed
SetSelectedYear(v, year) ==
  IF year = v.selectedYear THEN v
  ELSE FetchCalendar([v EXCEPT !.selectedYear = year])

\* if (!isMounted) return
IsMountedAlways(c) == TRUE

IsMounted(c) == c.isMounted

\* the cycle of the frame s is over
EndCycle(v, s) == [v EXCEPT !.cycles[s] = IdleCycle]

\* the catch of lines 87-92
CatchCycle(v, s, message) ==
  IF ~IsMounted(v.cycles[s]) THEN EndCycle(v, s)
  ELSE EndCycle([v EXCEPT !.error = message, !.loading = FALSE], s)

\* verifyRamadanDates has settled: lines 25-34
AfterVerifyRaises(v, s, datesMatch) ==
  IF ~IsMounted(v.cycles[s]) THEN EndCycle(v, s)
  ELSE IF ~datesMatch THEN CatchCycle(v, s, "Verification failed")
  ELSE [v EXCEPT !.verificationStatus = "verified",
                 !.cycles[s].pc = "calendar", !.cycles[s].datesMatch = datesMatch]

AfterVerify(v, s, datesMatch) ==
  IF ~IsMounted(v.cycles[s]) THEN EndCycle(v, s)
  ELSE [v EXCEPT !.verificationStatus = IF datesMatch THEN "verified" ELSE "mismatch",
                 !.cycles[s].pc = "calendar", !.cycles[s].datesMatch = datesMatch]

\* getRamadanCalendar has returned window: lines 34-43
AfterCalendar(v, s, window) ==
  IF ~IsMounted(v.cycles[s]) THEN EndCycle(v, s)
  ELSE IF Len(window) = 0
       THEN CatchCycle(v, s, "No Ramadan days found for the selected year")
       ELSE [v EXCEPT !.cycles[s].pc = "days", !.cycles[s].window = window,
                      !.cycles[s].i = 0, !.cycles[s].formattedDays = <<>>]

\* lines 56-71: the Ramadan Day of the day at index i of the window
RamadanDayByCount(day, i, formattedDays) ==
  [date |-> day.n, ramadanDay |-> Len(formattedDays) + 1,
   isFirstDay |-> Len(formattedDays) = 0,
   isLailatulQadr |-> (Len(formattedDays) + 1) \in {21, 23, 25, 27, 29}]

RamadanDay(day, i, formattedDays) ==
  [date |-> day.n, ramadanDay |-> i + 1, isFirstDay |-> i = 0,
   isLailatulQadr |-> (i + 1) \in {21, 23, 25, 27, 29}]

\* lines 84-86
AfterDays(v, s) ==
  IF ~IsMounted(v.cycles[s]) THEN EndCycle(v, s)
  ELSE EndCycle([v EXCEPT !.ramadanDays = v.cycles[s].formattedDays,
                          !.loading = FALSE], s)

\* the getPrayerTimes of the day at index i has settled (returned: the day
\* is pushed, lines 53-76; thrown: the day is skipped, lines 77-81), then the
\* loop goes on to its next await or ends
AfterDaySkipRaises(v, s, returned) ==
  LET c == v.cycles[s]
      pushed == Append(c.formattedDays, RamadanDay(c.window[c.i + 1], c.i, c.formattedDays))
      progress == c.i % 5 = 0 /\ IsMounted(c)
      w == [v EXCEPT !.cycles[s].formattedDays = pushed,
                     !.cycles[s].i = c.i + 1,
                     !.ramadanDays = IF progress THEN pushed ELSE @]
  IN IF ~returned THEN CatchCycle(v, s, CatchPrayer("thrown"))
     ELSE IF c.i + 1 < Len(c.window) THEN w ELSE AfterDays(w, s)

AfterDay(v, s, returned) ==
  LET c == v.cycles[s]
      pushed == IF returned
                THEN Append(c.formattedDays, RamadanDay(c.window[c.i + 1], c.i, c.formattedDays))
                ELSE c.formattedDays
      progress == returned /\ c.i % 5 = 0 /\ IsMounted(c)
      w == [v EXCEPT !.cycles[s].formattedDays = pushed,
                     !.cycles[s].i = c.i + 1,
                     !.cycles[s].skipped = IF returned THEN @ ELSE @ + 1,
                     !.ramadanDays = IF progress THEN pushed ELSE @]
  IN IF c.i + 1 < Len(c.window) THEN w ELSE AfterDays(w, s)

\* the cycle of the frame s has resumed from v to w
Resume(v, s, w) ==
  LET stale == ~v.cycles[s].isMounted
  IN [w EXCEPT !.staleEnded = @ \/ stale,
               !.staleWrote = @ \/ (stale /\ Display(w) # Display(v))]

\* the view is mounted: the state is the initial one and the effect runs
MountRamadan ==
  /\ ~ramadan.mounted /\ ~today.mounted /\ ~calendar.mounted
  /\ ramadan' = FetchCalendar([IdleRamadan EXCEPT !.mounted = TRUE,
                                                  !.staleEnded = ramadan.staleEnded,
                                                  !.staleWrote = ramadan.staleWrote])
  /\ UNCHANGED <<nonView, today, calendar, grid>>

\* the view is torn down: the cleanup of the effect runs (line 98) and the
\* state of the component is gone; the cycles still in flight and the
\* timeouts of Retry find isMounted false or a component that is gone, and
\* are dropped
UnmountRamadan ==
  /\ ramadan.mounted
  /\ ramadan' = [IdleRamadan EXCEPT !.staleEnded = ramadan.staleEnded,
                                    !.staleWrote = ramadan.staleWrote]
  /\ UNCHANGED <<nonView, today, calendar, grid>>

\* Previous Year, lines 140-145
PreviousYear ==
  /\ ramadan.mounted /\ RamadanScreen(ramadan) = "calendar" /\ CanStart(ramadan)
  /\ ramadan.selectedYear - 1 \in (FirstYear - YearReach)..(FirstYear + YearReach)
  /\ ramadan' = SetSelectedYear(ramadan, ramadan.selectedYear - 1)
  /\ UNCHANGED <<nonView, today, calendar, grid>>

\* Next Year, lines 171-176
NextYear ==
  /\ ramadan.mounted /\ RamadanScreen(ramadan) = "calendar" /\ CanStart(ramadan)
  /\ ramadan.selectedYear + 1 \in (FirstYear - YearReach)..(FirstYear + YearReach)
  /\ ramadan' = SetSelectedYear(ramadan, ramadan.selectedYear + 1)
  /\ UNCHANGED <<nonView, today, calendar, grid>>

\* another year is picked in the select, lines 147-155
SelectYear ==
  /\ ramadan.mounted /\ RamadanScreen(ramadan) = "calendar" /\ CanStart(ramadan)
  /\ \E year \in YearPicks \ {ramadan.selectedYear} :
       ramadan' = SetSelectedYear(ramadan, year)
  /\ UNCHANGED <<nonView, today, calendar, grid>>

\* Retry, lines 118-130
RamadanRetry ==
  /\ ramadan.mounted /\ RamadanScreen(ramadan) = "error"
  /\ Cardinality(ramadan.timers) < MaxTimers
  /\ ramadan.selectedYear = 0 \/ CanStart(ramadan)
  /\ ramadan' = [SetSelectedYear([ramadan EXCEPT !.error = "", !.loading = TRUE,
                                                 !.verificationStatus = "pending"], 0)
                   EXCEPT !.timers = @ \cup {ramadan.selectedYear}]
  /\ UNCHANGED <<nonView, today, calendar, grid>>

\* a timeout of Retry fires: line 125
RetryTimer ==
  /\ ramadan.mounted
  /\ \E year \in ramadan.timers :
       /\ year = ramadan.selectedYear \/ CanStart(ramadan)
       /\ ramadan' = [SetSelectedYear(ramadan, year) EXCEPT !.timers = @ \ {year}]
  /\ UNCHANGED <<nonView, today, calendar, grid>>

\* verifyRamadanDates settles for the cycle of the frame s
RamadanVerified(s) ==
  /\ ramadan.cycles[s].pc = "verify"
  /\ \E datesMatch \in MatchesOf(ramadan.cycles[s].year) :
       ramadan' = Resume(ramadan, s, AfterVerify(ramadan, s, datesMatch))
  /\ UNCHANGED <<nonView, today, calendar, grid>>

\* getRamadanCalendar returns to the cycle of the frame s
RamadanListed(s) ==
  /\ ramadan.cycles[s].pc = "calendar"
  /\ \E window \in WindowsOf(ramadan.cycles[s].year) :
       ramadan' = Resume(ramadan, s, AfterCalendar(ramadan, s, window))
  /\ UNCHANGED <<nonView, today, calendar, grid>>

\* getRamadanCalendar throws in the cycle of the frame s
RamadanListFailed(s) ==
  /\ ramadan.cycles[s].pc = "calendar"
  /\ ramadan' = Resume(ramadan, s, CatchCycle(ramadan, s, CalendarError))
  /\ UNCHANGED <<nonView, today, calendar, grid>>

\* getPrayerTimes returns to the cycle of the frame s
RamadanDayDone(s) ==
  /\ ramadan.cycles[s].pc = "days"
  /\ ramadan' = Resume(ramadan, s, AfterDay(ramadan, s, TRUE))
  /\ UNCHANGED <<nonView, today, calendar, grid>>

\* getPrayerTimes throws in the cycle of the frame s
RamadanDaySkipped(s) ==
  /\ ramadan.cycles[s].pc = "days" /\ ramadan.cycles[s].skipped < MaxSkips
  /\ CanFail(ramadan.cycles[s])
  /\ ramadan' = Resume(ramadan, s, AfterDay(ramadan, s, FALSE))
  /\ UNCHANGED <<nonView, today, calendar, grid>>

----------------------------------------------------------------------------
(* The Timing Set of getPrayerTimes, api.ts:268-291 and api.ts:1113-1132   *)
(* prayerData.results gives each of the six names a string or nothing      *)
(* (Undefined).  built.results is such a results object, built.impl the    *)
(* copy of getPrayerTimes applied to it ("first" for lines 268-291,        *)
(* "third" for lines 1113-1132) and built.timings the data.timings it      *)
(* returned, a function on the names that are present in it.               *)

Undefined == <<"undefined">>

ResultNames == {"Fajr", "Sunrise", "Dhuhr", "Asr", "Maghrib", "Isha"}

\* formatTime(prayerData.results.X): both formatTime return '' for a value
\* that is not there
FormatResult(impl, value) == IF value = Undefined THEN <<>> ELSE Apply(impl, value)

\* timings, lines 268-275 and 1113-1120
TimingsOf(impl, results) ==
  [name \in ResultNames |-> FormatResult(impl, results[name])]

\* Object.fromEntries(Object.entries(timings).filter(([, time]) => time !== ''))
validTimings(timings) ==
  [name \in { n \in DOMAIN timings : timings[n] # <<>> } |-> timings[name]]

\* validTimings.X || ''
OrEmpty(valid, name) == IF name \in DOMAIN valid THEN valid[name] ELSE <<>>

\* data.timings of lines 285-291, built with the formatTime of lines 91-94
TimingsFirst(results) ==
  LET valid == validTimings(TimingsOf("short", results))
  IN [name \in {"Fajr", "Dhuhr", "Asr", "Maghrib", "Isha"} |-> OrEmpty(valid, name)]

\* data.timings of line 1132, built with the formatTime of lines 1038-1076
TimingsThird(results) == validTimings(TimingsOf("full", results))

\* the values the provider is taken to send for a prayer: none, one that is
\* not a time, or a time
ResultChoices(name) ==
  { Undefined, <<"z", "z">>,
    CASE name = "Fajr"    -> Clock(4, 30)
      [] name = "Sunrise" -> Clock(6, 45)
      [] name = "Dhuhr"   -> Clock(12, 15)
      [] name = "Asr"     -> Clock(15, 30)
      [] name = "Maghrib" -> Clock(18, 0)
      [] OTHER            -> Clock(19, 30) }
    \cup (IF name = "Fajr" THEN { <<>> } ELSE {})

ResultSets ==
  { results \in [ResultNames -> UNION { ResultChoices(name) : name \in ResultNames }] :
      \A name \in ResultNames : results[name] \in ResultChoices(name) }

NoTimings == [name \in {} |-> <<>>]

IdleBuilt ==
  [pc |-> "idle", impl |-> "none", results |-> [name \in ResultNames |-> Undefined],
   timings |-> NoTimings]

BuildTimingsFirst ==
  /\ built.pc = "results"
  /\ built' = [built EXCEPT !.pc = "built", !.impl = "first",
                            !.timings = TimingsFirst(built.results)]
  /\ UNCHANGED nonBuilt

BuildTimingsThird ==
  /\ built.pc = "results"
  /\ built' = [built EXCEPT !.pc = "built", !.impl = "third",
                            !.timings = TimingsThird(built.results)]
  /\ UNCHANGED nonBuilt


----------------------------------------------------------------------------
(* The caller of a wrapper takes its outcome; what it can see of a failure *)
(* is the error value.                                                     *)

Observe(t) ==
  /\ task[t].status \in {"returned", "raised"}
  /\ seen' = IF task[t].status = "raised"
             THEN seen \cup {<<task[t].op, task[t].cause, task[t].error>>}
             ELSE seen
  /\ task' = [task EXCEPT ![t] = IdleTask]
  /\ UNCHANGED nonClient

----------------------------------------------------------------------------
(* The client: one caller using fetchWithRetry and the wrappers            *)

InitClient ==
  /\ task = [t \in Tasks |-> IdleTask]
  /\ seen = {}
  /\ norm = IdleNorm
  /\ verify = IdleVerify
  /\ today = IdleToday
  /\ calendar = IdleCalendar
  /\ built = IdleBuilt
  /\ grid = IdleGrid
  /\ ramadan = IdleRamadan

NextClient ==
  \/ CallFetch("primary")
  \/ CallMonth("primary")
  \/ CallPrayer("primary")
  \/ AxiosGet("primary")
  \/ AxiosResolve("primary")
  \/ AxiosReject("primary")
  \/ TimerFire("primary")
  \/ FetchSettle("primary")
  \/ MonthSettle("primary")
  \/ PrayerSettle("primary")
  \/ HijriSettle("primary")
  \/ Observe("primary")

SpecClient == InitClient /\ [][NextClient]_vars

----------------------------------------------------------------------------
(* The Hijri year resolver called alone                                    *)

NextResolver ==
  \/ CallResolver("primary")
  \/ AxiosGet("primary")
  \/ AxiosResolve("primary")
  \/ AxiosReject("primary")
  \/ TimerFire("primary")
  \/ ResolverSettle("primary")

SpecResolver == InitClient /\ [][NextResolver]_vars

----------------------------------------------------------------------------
(* One getRamadanCalendar call                                             *)

NextRamadan ==
  \/ CallRamadan("primary")
  \/ AxiosGet("primary")
  \/ AxiosResolve("primary")
  \/ AxiosReject("primary")
  \/ TimerFire("primary")
  \/ RamadanResolved("primary")
  \/ CandidateSettle("primary")

SpecRamadan == InitClient /\ [][NextRamadan]_vars

----------------------------------------------------------------------------
(* One verifyRamadanDates call: its two getRamadanCalendar calls run       *)
(* concurrently                                                            *)

NextVerify ==
  \/ CallVerify
  \/ VerifySettle
  \/ \E t \in Tasks :
       \/ AxiosGet(t)
       \/ AxiosResolve(t)
       \/ AxiosReject(t)
       \/ TimerFire(t)
       \/ RamadanResolved(t)
       \/ CandidateSettle(t)

SpecVerify == InitClient /\ [][NextVerify]_vars

----------------------------------------------------------------------------
(* The views TodayPrayers and Calendar, one of them on screen at a time    *)

NextViews ==
  \/ MountToday
  \/ TodayFetched
  \/ TodayFetchFailed
  \/ TodayTick
  \/ UnmountToday
  \/ MountCalendar
  \/ CalendarTick
  \/ CalendarFetched
  \/ CalendarFetchFailed
  \/ UnmountCalendar

SpecViews == InitClient /\ [][NextViews]_vars

----------------------------------------------------------------------------
(* Properties of the retrying client                                       *)

AllFail(s) == \A j \in 1..Len(s) : s[j] = "fail"

\* C1: with the budget of 3, a call whose attempts 1 and 2 fail and whose
\* attempt 3 succeeds returns the payload of attempt 3 after exactly 3
\* attempts; a call whose attempts all fail raises after exactly 3 attempts;
\* there is never a 4th attempt and never an attempt after a successful one.
C1_ThreeAttempts ==
  \A t \in Tasks :
    LET f == task[t] IN
      /\ f.requests <= 3
      /\ f.outcomes = <<"fail", "fail", "ok">> =>
           f.fpc = "returned" /\ f.requests = 3 /\ f.data = f.response
      /\ (f.op = "fetchWithRetry" /\ f.status = "returned") =>
           f.value = f.response.days
      /\ f.outcomes = <<"fail", "fail", "fail">> => f.fpc = "raised"
      /\ f.fpc = "raised" =>
           f.requests = 3 /\ f.outcomes = <<"fail", "fail", "fail">>
      /\ (f.op = "fetchWithRetry" /\ f.status = "raised") =>
           f.error \in AxiosErrors
      /\ \A j \in 1..Len(f.outcomes) :
           f.outcomes[j] = "ok" =>
             j = Len(f.outcomes) /\ f.requests = j /\ f.fpc = "returned"

C1_Witness ==
  \E t \in Tasks :
    /\ task[t].op = "fetchWithRetry" /\ task[t].status = "returned"
    /\ task[t].outcomes = <<"fail", "fail", "ok">>
    /\ task[t].value # <<>>

\* C2: attempt k+1 starts only after attempt k failed and one wait of 1000 ms
\* elapsed: while attempt i+1 is in flight, i attempts failed and i waits of
\* 1000 ms each were taken; a wait is only taken with attempts left; when the
\* call raises or returns, the waits are one fewer than the attempts, so no
\* wait follows the final attempt.
C2_OneWaitBetweenAttempts ==
  \A t \in Tasks :
    LET f == task[t] IN
      /\ f.fpc = "inflight" =>
           /\ f.requests = f.i + 1
           /\ Len(f.outcomes) = f.i /\ AllFail(f.outcomes)
           /\ f.waits = f.i /\ f.slept = 1000 * f.i
      /\ f.fpc = "sleep" =>
           /\ f.requests < 3
           /\ Len(f.outcomes) = f.requests /\ AllFail(f.outcomes)
           /\ f.waits = f.requests /\ f.slept = 1000 * (f.waits - 1)
      /\ f.fpc \in {"raised", "returned"} =>
           /\ f.waits = f.requests - 1
           /\ f.slept = 1000 * f.waits

C2_Witness ==
  \E t \in Tasks :
    /\ task[t].fpc = "raised" /\ task[t].requests = 3
    /\ task[t].waits = 2 /\ task[t].slept = 2000

\* the last body delivered to the frame has the wrong shape for the wrapper
\* awaiting it
WrongShape(f) ==
  /\ f.responded
  /\ \/ f.response.nil
     \/ f.op = "getMonthCalendar" /\ (f.response.code # 200 \/ ~f.response.isArray)
     \/ f.op = "getPrayerTimes" /\ f.pc = "prayer" /\ ~f.response.hasResults
     \/ f.op = "getPrayerTimes" /\ f.pc = "hijri"
          /\ (~f.response.hasData \/ ~f.response.hasHijri)

\* C3: a delivered response of the wrong shape is never retried:
\* fetchWithRetry returns on the attempt that delivered it, and the next step
\* of getMonthCalendar or getPrayerTimes is to raise, with no further request.
C3_MalformedNotRetried ==
  /\ [](\A t \in Tasks :
          (task[t].op \in {"getMonthCalendar", "getPrayerTimes"}
             /\ task[t].status = "running" /\ WrongShape(task[t])) =>
            /\ task[t].fpc = "returned"
            /\ task[t].requests = Len(task[t].outcomes))
  /\ [][\A t \in Tasks :
          (task[t].op \in {"getMonthCalendar", "getPrayerTimes"}
             /\ task[t].status = "running" /\ WrongShape(task[t])) =>
            /\ task'[t].status = "raised"
            /\ task'[t].gets = task[t].gets]_vars

C3_Witness ==
  \E t \in Tasks :
    /\ task[t].op = "getPrayerTimes" /\ task[t].status = "raised"
    /\ task[t].cause = "malformed"
    /\ ~task[t].response.nil /\ task[t].gets = 2

\* C4: for each wrapper, a failure by exhausted retries and a failure by a
\* malformed response never reach the caller as the same error value.
C4_CausesDistinguishable ==
  \A a \in seen : \A b \in seen :
    (a[1] = b[1] /\ a[1] \in {"getMonthCalendar", "getPrayerTimes"}
       /\ a[2] = "exhausted" /\ b[2] = "malformed") => a[3] # b[3]

----------------------------------------------------------------------------
(* The time normalizer applied to one argument, then to its own result     *)

InitTime ==
  /\ task = [t \in Tasks |-> IdleTask]
  /\ seen = {}
  /\ verify = IdleVerify
  /\ today = IdleToday
  /\ calendar = IdleCalendar
  /\ built = IdleBuilt
  /\ grid = IdleGrid
  /\ ramadan = IdleRamadan
  /\ \E p \in TimeParts :
       norm = [IdleNorm EXCEPT !.pc = "argument", !.parts = p, !.time = TimeOf(p)]

CallFormatTime ==
  /\ norm.pc = "argument"
  /\ norm' = [norm EXCEPT !.pc = "once", !.impl = "full",
                          !.once = formatTime(norm.time)]
  /\ UNCHANGED nonTime

CallFormatTimeShort ==
  /\ norm.pc = "argument"
  /\ norm' = [norm EXCEPT !.pc = "once", !.impl = "short",
                          !.once = formatTimeShort(norm.time)]
  /\ UNCHANGED nonTime

CallAgain ==
  /\ norm.pc = "once"
  /\ norm' = [norm EXCEPT !.pc = "twice", !.twice = Apply(norm.impl, norm.once)]
  /\ UNCHANGED nonTime

\* the other formatTime of api.ts is called with the same argument
CallOther ==
  /\ norm.pc = "once"
  /\ norm' = [norm EXCEPT !.pc = "other",
                          !.other = Apply(IF norm.impl = "full" THEN "short" ELSE "full",
                                          norm.time)]
  /\ UNCHANGED nonTime

NextTime == CallFormatTime \/ CallFormatTimeShort \/ CallAgain \/ CallOther

SpecTime == InitTime /\ [][NextTime]_vars

----------------------------------------------------------------------------
(* Properties of the time normalizer                                       *)

Decimal(n) == IF n < 10 THEN <<DigitChars[n + 1]>> ELSE TwoDigits(n)

NonEmptyDigits(s) == s # <<>> /\ \A j \in 1..Len(s) : IsDigit(s[j])

\* the argument is a valid 12-hour time "h:mm AM" or "h:mm PM"
Valid12(p) ==
  /\ p.hour \in { Decimal(h) : h \in 1..12 }
  /\ p.sep = <<":">>
  /\ p.minute \in { TwoDigits(m) : m \in 0..59 }
  /\ p.gap = <<" ">>
  /\ p.meridiem \in { <<"A", "M">>, <<"P", "M">> }

\* the canonical form of a valid 12-hour time
Expected24(p) ==
  LET h == CHOOSE h \in 1..12 : Decimal(h) = p.hour
      hh == IF p.meridiem = <<"P", "M">>
            THEN (IF h = 12 THEN 12 ELSE h + 12)
            ELSE (IF h = 12 THEN 0 ELSE h)
  IN TwoDigits(hh) \o <<":">> \o p.minute

\* C5: for every valid 12-hour argument "h:mm AM/PM" the normalizer returns
\* the zero-padded "HH:MM" with PM adding 12 unless h = 12 and AM mapping
\* h = 12 to 0 ("12:00 AM" gives "00:00", "1:05 PM" gives "13:05").
C5_TwelveHourConverted ==
  (norm.pc \in {"once", "twice"} /\ Valid12(norm.parts)) =>
    norm.once = Expected24(norm.parts)

\* the conversion holds of the formatTime of api.ts:1038-1076 taken alone
FullFormatTimeConverts ==
  (norm.pc \in {"once", "twice"} /\ norm.impl = "full" /\ Valid12(norm.parts)) =>
    norm.once = Expected24(norm.parts)

\* the argument is malformed: empty or blank, a time part followed by a gap
\* with no meridiem, or an hour or minute component that is not a number
Malformed(p) ==
  \/ \A j \in 1..Len(TimeOf(p)) : TimeOf(p)[j] = " "
  \/ p.gap # <<>> /\ p.meridiem = <<>>
  \/ p.sep = <<":">> /\ (~NonEmptyDigits(p.hour) \/ ~NonEmptyDigits(p.minute))

\* C6: for every malformed argument (empty or blank, meridiem missing,
\* non-numeric hour or minute component) formatTime returns the empty string.
C6_MalformedGivesEmpty ==
  (norm.pc \in {"once", "twice"} /\ norm.impl = "full" /\ Malformed(norm.parts)) =>
    norm.once = <<>>

\* what does hold: a component holding a character that is no digit, a blank
\* argument and a missing meridiem give the empty string
NonDigitGivesEmpty ==
  (/\ norm.pc \in {"once", "twice"} /\ norm.impl = "full"
   /\ \/ \A j \in 1..Len(norm.time) : norm.time[j] = " "
      \/ norm.parts.gap # <<>> /\ norm.parts.meridiem = <<>>
      \/ /\ norm.parts.sep = <<":">>
         /\ \E j \in 1..Len(norm.parts.hour \o norm.parts.minute) :
              ~IsDigit((norm.parts.hour \o norm.parts.minute)[j]))
    => norm.once = <<>>

\* C7: formatTime is idempotent: for every argument, formatTime applied to
\* its own result gives that result again.
C7_Idempotent ==
  (norm.pc = "twice" /\ norm.impl = "full") => norm.twice = norm.once

C7_Witness ==
  /\ norm.pc = "twice" /\ norm.impl = "full"
  /\ norm.parts.meridiem = <<"P", "M">>
  /\ norm.once # <<>> /\ norm.once # norm.time /\ norm.twice = norm.once

----------------------------------------------------------------------------
(* Properties of the Hijri year resolver                                   *)

\* the value of a string of four decimal digits
FourDigitValue(s) ==
  1000 * DigitVal(s[1]) + 100 * DigitVal(s[2]) + 10 * DigitVal(s[3]) + DigitVal(s[4])

\* the four decimal digits of a year in 1000..9999
FourDigits(n) ==
  <<DigitChars[(n \div 1000) + 1], DigitChars[((n \div 100) % 10) + 1],
    DigitChars[((n \div 10) % 10) + 1], DigitChars[(n % 10) + 1]>>

\* the conversion was answered with code 200 and a hijri descriptor
Converted(f) ==
  /\ f.fpc = "returned" /\ f.responded /\ ~f.response.nil
  /\ f.response.code = 200 /\ f.response.hasData /\ f.response.hasHijri

C9_FallbackFormula ==
  \A t \in Tasks :
    LET f == task[t]
        g == f.gregorianYear
    IN (f.op = "findRamadanYear" /\ f.status = "returned" /\ f.fellBack) =>
         f.hijriYear = Num((g - 622) + ((2 * (g - 622)) \div 65))

C9_Witness ==
  \E t \in Tasks :
    /\ task[t].op = "findRamadanYear" /\ task[t].status = "returned"
    /\ task[t].fellBack /\ task[t].gregorianYear = 600
    /\ task[t].hijriYear = Num(-23)

----------------------------------------------------------------------------
(* Properties of the Ramadan window fetcher                                *)

\* the days of the last delivered listing that are whole and carry the
\* requested Gregorian year, in the provider's order
ExpectedMatching(f) ==
  LET Whole(day) ==
        /\ day.isObject /\ day.gregorian = "full" /\ day.hijri = "full"
        /\ day.year = FourDigits(f.gregorianYear)
  IN SelectSeq(f.response.days, Whole)

\* the listing delivered for the current candidate yields at least 29 days of
\* the requested year
Qualifies(f) ==
  /\ f.op = "getRamadanCalendar" /\ f.url = "hijriCalendar"
  /\ f.responded /\ ~f.response.nil /\ f.response.code = 200 /\ f.response.isArray
  /\ \A j \in 1..Len(f.response.days) :
       f.response.days[j].gregorian # "shallow" /\ f.response.days[j].hijri # "shallow"
  /\ Len(ExpectedMatching(f)) >= 29

\* C10: when the listing of a candidate yields at least 29 days whose
\* Gregorian year is the requested one, getRamadanCalendar returns exactly
\* those days and requests no later candidate.
C10_FirstMatchReturned ==
  /\ [](\A t \in Tasks :
          Qualifies(task[t]) =>
            /\ task[t].fpc = "returned"
            /\ task[t].status \in {"running", "returned"}
            /\ task[t].status = "returned" =>
                 /\ task[t].value = ExpectedMatching(task[t])
                 /\ Len(task[t].requested) = task[t].k)
  /\ [][\A t \in Tasks :
          (Qualifies(task[t]) /\ task[t].status = "running") =>
            /\ task'[t].status = "returned"
            /\ task'[t].gets = task[t].gets
            /\ task'[t].requested = task[t].requested]_vars

C10_Witness ==
  \E t \in Tasks :
    /\ task[t].op = "getRamadanCalendar" /\ task[t].status = "returned"
    /\ Qualifies(task[t])
    /\ Len(task[t].value) = 30 /\ task[t].k = 1 /\ Len(task[t].requested) = 1

\* the listing delivered for the current candidate is read without error and
\* yields fewer than 29 days of the requested year, or no listing came back
FallsShort(f) ==
  /\ f.op = "getRamadanCalendar" /\ f.pc = "candidate" /\ f.fpc = "returned"
  /\ f.responded
  /\ \/ f.response.nil \/ f.response.code # 200 \/ ~f.response.isArray
     \/ /\ \A j \in 1..Len(f.response.days) :
             f.response.days[j].gregorian # "shallow"
               /\ f.response.days[j].hijri # "shallow"
        /\ Len(ExpectedMatching(f)) < 29

\* the error values getRamadanCalendar raises for an I/O failure
IoFailureErrors == { CatchRamadan(e) : e \in AxiosErrors }

\* what holds of the search: a candidate that falls short is followed by the
\* request of the next candidate, and the third one by the failure
AllCandidatesRequested ==
  /\ [](\A t \in Tasks :
          (task[t].op = "getRamadanCalendar" /\ task[t].cause = "notfound") =>
            /\ task[t].status = "raised"
            /\ Len(task[t].requested) = 3 /\ task[t].k = 3)
  /\ [][\A t \in Tasks :
          (FallsShort(task[t]) /\ task[t].status = "running") =>
            IF task[t].k < 3
            THEN /\ task'[t].status = "running" /\ task'[t].k = task[t].k + 1
                 /\ Len(task'[t].requested) = task[t].k + 1
            ELSE task'[t].status = "raised" /\ task'[t].cause = "notfound"]_vars

\* C11: when every one of the three candidates yields fewer than 29 matching
\* days, getRamadanCalendar has requested all three candidates and fails with
\* an error that names the "no Ramadan days found" condition and is not the
\* error it raises for an I/O failure.
C11_NotFoundIsDistinct ==
  \A t \in Tasks :
    (task[t].op = "getRamadanCalendar" /\ task[t].status = "raised"
       /\ task[t].cause = "notfound") =>
      /\ Len(task[t].requested) = 3
      /\ task[t].error \notin IoFailureErrors

\* a successful call of getRamadanCalendar
Succeeded(f) == f.op = "getRamadanCalendar" /\ f.status = "returned"

\* C12: every day of a successful result has the requested year, as a string,
\* in its Gregorian year field, and the days are days of the one listing
\* delivered for the accepted candidate, in the provider's order.
C12_OneListingInOrder ==
  \A t \in Tasks :
    LET f == task[t] IN
      Succeeded(f) =>
        /\ \A j \in 1..Len(f.value) :
             /\ f.value[j].year = FourDigits(f.gregorianYear)
             /\ f.value[j].n \in 1..Len(f.response.days)
             /\ f.response.days[f.value[j].n].n = f.value[j].n
             /\ f.response.days[f.value[j].n].year = f.value[j].year
        /\ \A j \in 1..(Len(f.value) - 1) : f.value[j].n < f.value[j + 1].n
        /\ f.url = "hijriCalendar" /\ Len(f.requested) = f.k

C12_Witness ==
  \E t \in Tasks :
    /\ Succeeded(task[t]) /\ task[t].k = 2
    /\ Len(task[t].response.days) = 30 /\ Len(task[t].value) = 29
    /\ task[t].response.days[1].year # FourDigits(task[t].gregorianYear)
    /\ task[t].value[1].n = 2

\* C13 as stated: a successful result has 29 or 30 days, whatever the
\* provider sends.
C13_TwentyNineOrThirty ==
  \A t \in Tasks : Succeeded(task[t]) => Len(task[t].value) \in {29, 30}

\* C13 as amended: a successful result has at least 29 days and holds every
\* day of the accepted listing that is whole and of the requested year, so
\* it has 29 or 30 days when that listing has at most 30 such days.
C13_AtLeastTwentyNine ==
  \A t \in Tasks :
    LET f == task[t] IN
      Succeeded(f) =>
        /\ Len(f.value) >= 29
        /\ Len(f.value) = Len(ExpectedMatching(f))
        /\ Len(f.value) <= Len(f.response.days)
        /\ Len(ExpectedMatching(f)) <= 30 => Len(f.value) \in {29, 30}

C13_Witness ==
  \E t \in Tasks :
    /\ Succeeded(task[t])
    /\ Len(task[t].response.days) = 31 /\ Len(task[t].value) = 31

\* a day with both sub-structures well formed
WellFormed(day) == day.isObject /\ day.gregorian = "full" /\ day.hijri = "full"

\* the frame holds a delivered listing for its current candidate, one of
\* whose days is not well formed
HasBadDay(f) ==
  /\ f.op = "getRamadanCalendar" /\ f.url = "hijriCalendar" /\ f.fpc = "returned"
  /\ f.responded /\ ~f.response.nil /\ f.response.code = 200 /\ f.response.isArray
  /\ \E j \in 1..Len(f.response.days) : ~WellFormed(f.response.days[j])

\* C14: a day of a listing that lacks a well-formed Gregorian or Hijri
\* sub-structure is dropped and never makes getRamadanCalendar fail: the
\* other days are still filtered and counted, so the call returns them
\* when they are at least 29 of the requested year, and fails only when the
\* third candidate falls short.
C14_BadDayDropped ==
  \A t \in Tasks :
    LET f == task[t] IN
      HasBadDay(f) =>
        /\ f.status = "returned" => f.value = ExpectedMatching(f)
        /\ f.status = "raised" =>
             f.cause = "notfound" /\ Len(ExpectedMatching(f)) < 29 /\ f.k = 3

\* what holds: a day that is no object, or has no gregorian or no hijri
\* member, is dropped
AbsentPartDropped ==
  \A t \in Tasks :
    LET f == task[t] IN
      (HasBadDay(f) /\ \A j \in 1..Len(f.response.days) :
                         f.response.days[j].gregorian # "shallow"
                           /\ f.response.days[j].hijri # "shallow") =>
        /\ f.status = "returned" => f.value = ExpectedMatching(f)
        /\ f.status = "raised" =>
             f.cause = "notfound" /\ Len(ExpectedMatching(f)) < 29 /\ f.k = 3

----------------------------------------------------------------------------
(* Properties of the cross-verifier                                        *)

Done(f) == f.status \in {"returned", "raised"}

\* C15: the result of verifyRamadanDates has datesMatch = true exactly when
\* both window fetches succeeded and the primary window has 29 or 30 days,
\* whatever the secondary window holds; the test gives true for 29 and for
\* 30 days and false for 25.
C15_DatesMatchOfPrimary ==
  /\ DatesMatch(29) /\ DatesMatch(30) /\ ~DatesMatch(25)
  /\ verify.pc = "done" =>
       (verify.datesMatch <=>
          /\ task["primary"].status = "returned"
          /\ task["secondary"].status = "returned"
          /\ Len(task["primary"].value) \in {29, 30})

C15_Witness ==
  /\ verify.pc = "done" /\ verify.datesMatch
  /\ Len(task["primary"].value) = 29 /\ Len(task["secondary"].value) = 30

\* C16: verifyRamadanDates never raises; when the primary fetch, the
\* secondary fetch or both fail, it returns a result with datesMatch = false.
C16_VerifierNeverRaises ==
  /\ ~verify.raised
  /\ (verify.pc = "done" /\ \E t \in Tasks : task[t].status = "raised") =>
       ~verify.datesMatch /\ ~verify.hasDates
  /\ (verify.pc = "awaiting" /\ \E t \in Tasks : task[t].status = "raised") =>
       ENABLED VerifySettle

C16_Witness ==
  /\ verify.pc = "done" /\ ~verify.raised /\ ~verify.datesMatch
  /\ task["primary"].status = "returned" /\ Len(task["primary"].value) = 30
  /\ task["secondary"].status = "raised"

\* C17: both window fetches have issued their first request before either
\* receives anything or completes, and whichever completes first, the result
\* holds the window of the default-adjustment fetch as primaryDates, that of
\* the other as secondaryDates, and datesMatch computed from the former.
C17_OrderIndependent ==
  /\ verify.pc # "idle" =>
       /\ \A t \in Tasks : task[t].gets >= 1
       /\ task["primary"].adjustment = 0 /\ task["secondary"].adjustment = 1
  /\ (verify.pc = "done" /\ verify.hasDates) =>
       /\ verify.primaryDates = task["primary"].value
       /\ verify.secondaryDates = task["secondary"].value
       /\ verify.datesMatch = (Len(task["primary"].value) \in {29, 30})
  /\ (verify.pc = "done" /\ ~verify.hasDates) =>
       ~verify.datesMatch /\ \E t \in Tasks : task[t].status = "raised"

C17_Witness ==
  /\ verify.pc = "done" /\ verify.hasDates /\ ~verify.datesMatch
  /\ task["secondary"].rank = 1 /\ task["primary"].rank = 2
  /\ Len(verify.primaryDates) = 31 /\ Len(verify.secondaryDates) = 30

----------------------------------------------------------------------------
(* Properties of the countdown                                             *)

\* a time "HH:MM" with HH in 00..23 and MM in 00..59
IsClock(s) ==
  /\ Len(s) = 5 /\ s[3] = ":"
  /\ \A j \in {1, 2, 4, 5} : IsDigit(s[j])
  /\ 10 * DigitVal(s[1]) + DigitVal(s[2]) <= 23
  /\ 10 * DigitVal(s[4]) + DigitVal(s[5]) <= 59

\* the milliseconds from midnight to the time "HH:MM"
ClockMs(s) ==
  ((10 * DigitVal(s[1]) + DigitVal(s[2])) * 60
     + 10 * DigitVal(s[4]) + DigitVal(s[5])) * 60000

\* every entry of the Timing Set is absent or a time "HH:MM"
WellTimed(times) == \A name \in DOMAIN times : times[name] = <<>> \/ IsClock(times[name])

\* the places in the canonical order of the entries that are today after now
Upcoming(times, now) ==
  { j \in 1..5 : times[PrayerOrder[j]] # <<>> /\ ClockMs(times[PrayerOrder[j]]) > now }

TimingExample ==
  [name \in {"Fajr", "Dhuhr", "Asr", "Maghrib", "Isha"} |->
     CASE name = "Fajr" -> <<"0", "4", ":", "3", "0">>
       [] name = "Dhuhr" -> <<"1", "2", ":", "1", "5">>
       [] name = "Asr" -> <<"1", "5", ":", "3", "0">>
       [] name = "Maghrib" -> <<"1", "8", ":", "0", "0">>
       [] OTHER -> <<"1", "9", ":", "3", "0">>]

\* C18: a run of updateNextPrayer at the instant now selects the first of
\* Fajr, Dhuhr, Asr, Maghrib, Isha that has a time and whose time today is
\* strictly after now (so not one exactly at now); when there is none and
\* Fajr has a time, it selects Fajr at that time on the following day.  With
\* Fajr 04:30, Dhuhr 12:15, Asr 15:30, Maghrib 18:00, Isha 19:30 it selects
\* Dhuhr with 00:15:00 remaining at 12:00:00 and tomorrow's Fajr at every
\* instant after 19:30:00.
C18_NextPrayerSelected ==
  (today.mounted /\ today.updated /\ WellTimed(today.times)) =>
    LET up == Upcoming(today.times, today.now)
        first == CHOOSE j \in up : \A k \in up : j <= k
    IN /\ up # {} =>
            /\ today.set /\ today.nextPrayer = PrayerOrder[first]
            /\ today.target = Num(ClockMs(today.times[PrayerOrder[first]]))
            /\ today.target.v > today.now
       /\ (up = {} /\ today.times["Fajr"] # <<>>) =>
            /\ today.set /\ today.nextPrayer = "Fajr"
            /\ today.target = Num(86400000 + ClockMs(today.times["Fajr"]))
       /\ (today.times = TimingExample /\ today.now = 12 * 3600000) =>
            /\ today.nextPrayer = "Dhuhr"
            /\ today.countdown = <<"0", "0", ":", "1", "5", ":", "0", "0">>
       /\ (today.times = TimingExample /\ today.now > (19 * 60 + 30) * 60000) =>
            /\ today.nextPrayer = "Fajr"
            /\ today.target = Num(86400000 + (4 * 60 + 30) * 60000)

C18_Witness ==
  /\ today.mounted /\ today.updated /\ today.set
  /\ today.times = TimingExample /\ today.now = 12 * 3600000
  /\ today.nextPrayer = "Dhuhr"
  /\ today.countdown = <<"0", "0", ":", "1", "5", ":", "0", "0">>

\* the number in the two places of s from j on
TwoDigitValue(s, j) == 10 * DigitVal(s[j]) + DigitVal(s[j + 1])

\* the number a text such as "3h 14m 59s" shows for the unit u (0 for none)
ShownFor(text, u) ==
  LET pieces == Split(text, " ")
      with == { j \in 1..Len(pieces) : pieces[j] # <<>> /\ Last(pieces[j]) = u }
  IN IF with = {} THEN 0
     ELSE LET piece == pieces[CHOOSE j \in with : TRUE]
          IN ToNumber(SubSeq(piece, 1, Len(piece) - 1)).v

\* hours, minutes and seconds are the truncated decomposition of d
Truncates(hours, minutes, seconds, d) ==
  /\ hours = d \div 3600000
  /\ minutes = (d % 3600000) \div 60000
  /\ seconds = (d % 60000) \div 1000
  /\ hours * 3600 + minutes * 60 + seconds = d \div 1000
  /\ minutes \in 0..59 /\ seconds \in 0..59
  /\ (hours * 3600 + minutes * 60 + seconds) * 1000 <= d

\* C19: the remaining duration d = target - now shown by TodayPrayers and by
\* each row of Calendar is decomposed by truncation: hours = floor(d /
\* 3600000), minutes = floor((d mod 3600000) / 60000), seconds = floor((d
\* mod 60000) / 1000), so hours * 3600 + minutes * 60 + seconds = floor(d /
\* 1000), minutes and seconds are in 0..59 and nothing is rounded up.
C19_TruncatedParts ==
  /\ (today.mounted /\ today.set /\ ~today.diff.nan) =>
       /\ today.diff.v = today.target.v - today.now
       /\ Len(today.countdown) = 8
       /\ Truncates(TwoDigitValue(today.countdown, 1),
                    TwoDigitValue(today.countdown, 4),
                    TwoDigitValue(today.countdown, 7), today.diff.v)
  /\ \A j \in 1..Len(calendar.prayerTimes) :
       LET row == calendar.prayerTimes[j] IN
         (row.timeRemaining # <<>> /\ IsClock(row.time)) =>
           Truncates(ShownFor(row.timeRemaining, "h"),
                     ShownFor(row.timeRemaining, "m"),
                     ShownFor(row.timeRemaining, "s"),
                     ClockMs(row.time) - calendar.now)

C19_Witness ==
  /\ today.mounted /\ today.set /\ ~today.diff.nan
  /\ today.diff.v % 1000 = 999
  /\ today.countdown = <<"0", "0", ":", "1", "4", ":", "5", "9">>

\* the same case in Calendar
CalendarTruncates ==
  \E j \in 1..Len(calendar.prayerTimes) :
    /\ calendar.prayerTimes[j].timeRemaining = <<"7", "h", " ", "1", "4", "m", " ", "5", "9", "s">>
    /\ calendar.now % 1000 = 1

\* the interval timers the view v has created
TimersOf(v) == 1..v.made

\* C20: the 1-second tick of a view stops exactly when the view is torn
\* down: no timer of a view fires after its teardown and none is live then;
\* while the view shows its countdown exactly one timer is live and never
\* more than one; cancelling a timer that is not live changes nothing.
C20_TickStopsAtTeardown ==
  /\ ~today.stale /\ ~calendar.stale
  /\ ~today.mounted => today.timers = {}
  /\ ~calendar.mounted => calendar.timers = {}
  /\ Cardinality(today.timers) <= 1 /\ Cardinality(calendar.timers) <= 1
  /\ (today.mounted /\ today.hasTimes) =>
       today.interval # 0 /\ today.timers = {today.interval}
  /\ (today.mounted /\ ~today.hasTimes) => today.timers = {}
  /\ calendar.mounted =>
       calendar.interval # 0 /\ calendar.timers = {calendar.interval}
  /\ \A id \in TimersOf(today) \ today.timers :
       clearInterval(today.timers, id) = today.timers
  /\ \A id \in TimersOf(calendar) \ calendar.timers :
       clearInterval(calendar.timers, id) = calendar.timers

C20_Witness ==
  /\ ~today.mounted /\ today.made = 2 /\ today.timers = {}
  /\ ~calendar.mounted /\ calendar.made = 1 /\ calendar.timers = {}

----------------------------------------------------------------------------
(* The month grid of Calendar                                              *)

NextGrid ==
  \/ MountCalendar
  \/ NextMonth
  \/ PreviousMonth
  \/ GridRender
  \/ MonthFetched
  \/ MonthFetchFailed
  \/ GridRetry
  \/ UnmountCalendar

SpecGrid == InitClient /\ [][NextGrid]_vars

----------------------------------------------------------------------------
(* The RamadanCalendar view                                                *)

NextRamadanView ==
  \/ MountRamadan
  \/ PreviousYear
  \/ NextYear
  \/ SelectYear
  \/ RamadanRetry
  \/ RetryTimer
  \/ \E s \in Slots :
       \/ RamadanVerified(s)
       \/ RamadanListed(s)
       \/ RamadanListFailed(s)
       \/ RamadanDayDone(s)
       \/ RamadanDaySkipped(s)
  \/ UnmountRamadan

SpecRamadanView == InitClient /\ [][NextRamadanView]_vars

----------------------------------------------------------------------------
(* The building of a Timing Set from one results object                    *)

InitTimings ==
  /\ task = [t \in Tasks |-> IdleTask]
  /\ seen = {}
  /\ norm = IdleNorm
  /\ verify = IdleVerify
  /\ today = IdleToday
  /\ calendar = IdleCalendar
  /\ grid = IdleGrid
  /\ ramadan = IdleRamadan
  /\ \E results \in ResultSets :
       built = [IdleBuilt EXCEPT !.pc = "results", !.results = results]

NextTimings == BuildTimingsFirst \/ BuildTimingsThird

SpecTimings == InitTimings /\ [][NextTimings]_vars

----------------------------------------------------------------------------
(* The building of the Ramadan Days of one window: a cycle of the view     *)
(* that has its window, of MaxWindow days or one fewer, and is about to    *)
(* await the getPrayerTimes of the first day                               *)

MaxWindow == 30

InitDays ==
  /\ task = [t \in Tasks |-> IdleTask]
  /\ seen = {}
  /\ norm = IdleNorm
  /\ verify = IdleVerify
  /\ today = IdleToday
  /\ calendar = IdleCalendar
  /\ built = IdleBuilt
  /\ grid = IdleGrid
  /\ \E len \in {MaxWindow - 1, MaxWindow} : \E lead \in {0, 1} :
       ramadan = AfterCalendar(AfterVerify(FetchCalendar([IdleRamadan EXCEPT !.mounted = TRUE]),
                                           "current", TRUE),
                               "current", Window(FirstYear, len, lead))

NextDays == \E s \in Slots : RamadanDayDone(s) \/ RamadanDaySkipped(s)

SpecDays == InitDays /\ [][NextDays]_vars

----------------------------------------------------------------------------
(* Properties of the countdown without a usable Timing Set                 *)

\* no prayer of the Timing Set has a value
EmptyTimes(times) == \A name \in DOMAIN times : times[name] = <<>>

\* C21: while TodayPrayers has no Timing Set, or one in which no prayer has
\* a value, the countdown reports no next prayer and does no work: no
\* interval timer is live, so no tick is scheduled or run.
C21_NoWorkWithoutTimes ==
  (today.mounted /\ (~today.hasTimes \/ EmptyTimes(today.times))) =>
    /\ today.nextPrayer = "" /\ ~today.set
    /\ today.interval = 0 /\ today.timers = {}

\* the part of C21 about a Timing Set that is not there yet
NoWorkBeforeTimes ==
  (today.mounted /\ ~today.hasTimes) =>
    /\ today.nextPrayer = "" /\ ~today.set /\ ~today.updated
    /\ today.interval = 0 /\ today.timers = {}

\* the part of C21 about the next prayer of an empty Timing Set
NoNextOfEmptyTimes ==
  (today.mounted /\ today.hasTimes /\ EmptyTimes(today.times)) =>
    today.nextPrayer = "" /\ ~today.set

\* C22: the prayer TodayPrayers counts down to and the row Calendar marks
\* as next are never Sunrise.
C22_SunriseNeverNext ==
  /\ today.nextPrayer # "Sunrise"
  /\ \A j \in 1..Len(calendar.prayerTimes) :
       calendar.prayerTimes[j].isNext => calendar.prayerTimes[j].name # "Sunrise"

\* the part of C22 about TodayPrayers
TodayNeverSunrise ==
  today.nextPrayer \in {"", "Fajr", "Dhuhr", "Asr", "Maghrib", "Isha"}

\* C30: a run of updateNextPrayer on a Timing Set with a value that is not
\* a time "HH:MM" treats that entry as absent: it does not report it as the
\* next prayer and the countdown it sets is a duration in digits, never one
\* computed from an Invalid Date.
C30_UnparseableIsAbsent ==
  (today.mounted /\ today.updated /\ today.set) =>
    /\ IsClock(today.times[today.nextPrayer])
    /\ ~today.target.nan /\ ~today.diff.nan
    /\ \A j \in 1..Len(today.countdown) :
         IsDigit(today.countdown[j]) \/ today.countdown[j] = ":"

\* the part of C30 about the prayers of today: an entry that is not a time
\* is passed over like an absent one
UnparseableSkippedToday ==
  (today.mounted /\ today.updated /\ today.set /\ today.target.v < DayMs
     /\ ~today.target.nan) =>
    IsClock(today.times[today.nextPrayer])

----------------------------------------------------------------------------
(* Properties of the Timing Set of getPrayerTimes                          *)

\* the provider value is missing or is not a time
Unusable(value) == value \in {Undefined, <<>>} \/ ~IsClock(formatTime(value))

\* C23: the Timing Set getPrayerTimes returns has no entry with an empty
\* value, and a prayer whose provider value is missing or is not a time has
\* no entry in it.
C23_OnlyNonEmptyKept ==
  built.pc = "built" =>
    /\ \A name \in DOMAIN built.timings : built.timings[name] # <<>>
    /\ \A name \in ResultNames :
         Unusable(built.results[name]) => name \notin DOMAIN built.timings

\* what C23 says, of the getPrayerTimes of lines 1079-1162 alone
ThirdCopyKeepsNonEmpty ==
  (built.pc = "built" /\ built.impl = "third") =>
    /\ \A name \in DOMAIN built.timings : built.timings[name] # <<>>
    /\ \A name \in ResultNames :
         Unusable(built.results[name]) <=> name \notin DOMAIN built.timings

----------------------------------------------------------------------------
(* Properties of the month grid of Calendar                                *)

TwoMonthsInFlight ==
  Len(grid.fetches) = 2 /\ grid.fetches[1] # grid.fetches[2]

\* C27: Retry on the error screen clears the error and starts a new fetch
\* from its first step for the selection that failed, which stays selected.
C27_RetryRefetchesSelection ==
  [][GridRetry =>
       /\ grid'.error = ""
       /\ grid'.currentDate = grid.currentDate
       /\ grid'.started = <<grid.currentDate>>
       /\ grid'.fetches = Append(grid.fetches, grid.currentDate)]_vars

\* what holds of Retry in Calendar: the error is cleared and a new fetch is
\* started from its first step for the month of new Date()
RetryRefetchesNewDate ==
  [][GridRetry =>
       /\ grid'.error = "" /\ grid'.loading
       /\ grid'.currentDate = NewDate
       /\ grid'.started = <<NewDate>>
       /\ grid'.fetches = Append(grid.fetches, NewDate)
       /\ grid'.calendarDays = grid.calendarDays]_vars

----------------------------------------------------------------------------
(* Properties of the RamadanCalendar view                                  *)

\* C25 as stated: a cycle that resumes after the selected year has changed
\* overwrites the displayed state.
C25_StaleResponseOverwrites == ramadan.staleEnded => ramadan.staleWrote

\* C25: a cycle whose effect has been cleaned up, because the selected year
\* changed while it was in flight, changes nothing of the displayed state
\* (day list, error, loading flag, verification status) when it resumes;
\* only the cycle of the last run of the effect is not cleaned up.
C25_StaleResponseDiscarded ==
  /\ ~ramadan.staleWrote
  /\ ramadan.cycles["old"].pc # "idle" => ~ramadan.cycles["old"].isMounted
  /\ ramadan.cycles["current"].pc # "idle" =>
       /\ ramadan.cycles["current"].isMounted
       /\ ramadan.cycles["current"].year = ramadan.selectedYear

C25_Witness ==
  /\ ramadan.mounted /\ ramadan.staleEnded
  /\ ramadan.cycles["current"].pc = "days"
  /\ ramadan.cycles["old"].pc = "days"
  /\ ramadan.cycles["old"].year # ramadan.cycles["current"].year
  /\ ramadan.cycles["old"].i > ramadan.cycles["current"].i

\* C26: a verification that fails or disagrees sets the verification
\* status to 'mismatch' and nothing else: the error stays empty, the cycle
\* goes on to getRamadanCalendar and to the days, and the only errors the
\* view ever shows are those of getRamadanCalendar and of an empty window.
C26_MismatchIsNotAnError ==
  /\ ramadan.error \in {"", CalendarError, "No Ramadan days found for the selected year"}
  /\ LET c == ramadan.cycles["current"] IN
       c.pc \in {"calendar", "days"} =>
         /\ ramadan.error = ""
         /\ ramadan.verificationStatus = IF c.datesMatch THEN "verified" ELSE "mismatch"

C26_Witness ==
  /\ ramadan.mounted /\ ramadan.verificationStatus = "mismatch"
  /\ ramadan.error = "" /\ ~ramadan.loading
  /\ Len(ramadan.ramadanDays) = ViewDays
  /\ \A s \in Slots : ramadan.cycles[s].pc = "idle"

\* the ordinals of days are increasing and their flags are those of their
\* ordinals
FlagsOfOrdinals(days) ==
  \A j \in 1..Len(days) :
    /\ days[j].isFirstDay <=> days[j].ramadanDay = 1
    /\ days[j].isLailatulQadr <=> days[j].ramadanDay \in {21, 23, 25, 27, 29}
    /\ \A k \in 1..(j - 1) :
         /\ days[k].ramadanDay < days[j].ramadanDay
         /\ days[j].date - days[k].date = days[j].ramadanDay - days[k].ramadanDay

\* C28: every Ramadan Day built from a window has as its ordinal the place
\* of its day in the window, counted from 1 (also when days before it were
\* skipped); it is the first day iff its ordinal is 1 and a Night of Power
\* iff its ordinal is one of 21, 23, 25, 27, 29.
C28_OrdinalAndFlags ==
  /\ FlagsOfOrdinals(ramadan.ramadanDays)
  /\ \A s \in Slots :
       LET c == ramadan.cycles[s] IN
         /\ FlagsOfOrdinals(c.formattedDays)
         /\ \A j \in 1..Len(c.formattedDays) :
              /\ c.formattedDays[j].ramadanDay \in 1..Len(c.window)
              /\ c.window[c.formattedDays[j].ramadanDay].n = c.formattedDays[j].date

C28_Witness ==
  /\ ramadan.mounted /\ ~ramadan.loading
  /\ Len(ramadan.ramadanDays) = 29
  /\ ramadan.ramadanDays[1].isFirstDay
  /\ ramadan.ramadanDays[28].ramadanDay = 29 /\ ramadan.ramadanDays[28].isLailatulQadr
  /\ ramadan.ramadanDays[29].ramadanDay = 30 /\ ~ramadan.ramadanDays[29].isLailatulQadr
  /\ ramadan.ramadanDays[29].date = 31

\* C29: the selected year, and the year of every fetch cycle that is run,
\* is one of 2025..2029.
C29_SupportedYears ==
  ramadan.mounted =>
    /\ ramadan.selectedYear \in 2025..2029
    /\ \A s \in Slots :
         ramadan.cycles[s].pc # "idle" => ramadan.cycles[s].year \in 2025..2029

----------------------------------------------------------------------------
(* Properties of the countdown over several ticks                          *)

\* C31: after a run of updateNextPrayer that finds no entry of today
\* strictly after now while Fajr has no value, the countdown reports no
\* next event: the name and the duration shown are empty, whatever an
\* earlier run had reported.
C31_NoNextEventIsEmpty ==
  (/\ today.mounted /\ today.updated /\ WellTimed(today.times)
   /\ Upcoming(today.times, today.now) = {} /\ today.times["Fajr"] = <<>>) =>
    today.nextPrayer = "" /\ today.countdown = <<>>

\* the part of C31 about the first run: with nothing reported before, such
\* a run reports nothing
NoNextEventSetsNothing ==
  (/\ today.mounted /\ today.updated /\ WellTimed(today.times)
   /\ Upcoming(today.times, today.now) = {} /\ today.times["Fajr"] = <<>>) =>
    ~today.set

----------------------------------------------------------------------------
(* Properties of the candidate search                                      *)

\* the year parameter the j-th hijriCalendar request of the frame f must
\* carry: the resolved year - 1, the resolved year, the resolved year + 1
CandidateInOrder(f, j) ==
  IF f.hijriYear.nan THEN f.requested[j] = <<"N", "a", "N">>
  ELSE /\ Len(f.requested[j]) = 4
       /\ FourDigitValue(f.requested[j]) = f.hijriYear.v + j - 2

\* C32: getRamadanCalendar requests the candidates one after the other in
\* the order resolved - 1, resolved, resolved + 1: the requests made so far
\* are the first candidates in this order, a candidate is requested only
\* when the request of the one before has settled with a listing that is
\* rejected, and a successful call returns the days of the last candidate
\* requested, every earlier one having been rejected.
C32_CandidatesInOrder ==
  /\ [](\A t \in Tasks :
          LET f == task[t] IN
            (f.op = "getRamadanCalendar" /\ f.pc \in {"candidate", "done"}) =>
              /\ Len(f.requested) <= 3 /\ Len(f.requested) = f.k
              /\ \A j \in 1..Len(f.requested) : CandidateInOrder(f, j)
              /\ Succeeded(f) =>
                   f.value = ExpectedMatching(f) /\ Len(f.value) >= 29)
  /\ [][\A t \in Tasks :
          (/\ task[t].op = "getRamadanCalendar"
           /\ Len(task'[t].requested) > Len(task[t].requested)
           /\ Len(task[t].requested) > 0) =>
            /\ Len(task'[t].requested) = Len(task[t].requested) + 1
            /\ SubSeq(task'[t].requested, 1, Len(task[t].requested)) = task[t].requested
            /\ FallsShort(task[t])
            /\ task'[t].fpc = "loop" /\ task'[t].requests = 0]_vars

\* a call returns the listing of the third candidate
C32_Witness ==
  \E t \in Tasks :
    /\ Succeeded(task[t]) /\ ~task[t].hijriYear.nan
    /\ task[t].hijriYear.v = 1446 /\ task[t].k = 3
    /\ task[t].requested = <<<<"1", "4", "4", "5">>, <<"1", "4", "4", "6">>,
                              <<"1", "4", "4", "7">>>>


\* the request of the current candidate has failed for good: its three
\* attempts were all rejected
CandidateFailed(f) ==
  /\ f.op = "getRamadanCalendar" /\ f.url = "hijriCalendar" /\ f.fpc = "raised"
  /\ f.outcomes = <<"fail", "fail", "fail">>

\* C33: when the request of a candidate fails for good (its three attempts
\* all fail), getRamadanCalendar fails in its next step, with the error of
\* an I/O failure, and requests none of the remaining candidates.
C33_FailedCandidateEndsSearch ==
  /\ [](\A t \in Tasks :
          CandidateFailed(task[t]) =>
            /\ task[t].requests = 3
            /\ task[t].status \in {"running", "raised"}
            /\ task[t].status = "raised" =>
                 /\ task[t].error \in IoFailureErrors
                 /\ Len(task[t].requested) = task[t].k)
  /\ [][\A t \in Tasks :
          (CandidateFailed(task[t]) /\ task[t].status = "running") =>
            /\ task'[t].status = "raised"
            /\ task'[t].gets = task[t].gets
            /\ task'[t].requested = task[t].requested]_vars

\* the first candidate fails for good and the call has failed with the two
\* other candidates never requested
C33_Witness ==
  \E t \in Tasks :
    /\ CandidateFailed(task[t]) /\ task[t].status = "raised"
    /\ task[t].k = 1 /\ Len(task[t].requested) = 1 /\ task[t].requests = 3

----------------------------------------------------------------------------
(* One verifyRamadanDates call with an unreliable provider                 *)

NextAttempts ==
  \/ CallVerifyUnreliable
  \/ VerifySettle
  \/ \E t \in Tasks :
       \/ AxiosGet(t)
       \/ AxiosResolve(t)
       \/ AxiosReject(t)
       \/ TimerFire(t)
       \/ RamadanResolved(t)
       \/ CandidateSettle(t)

SpecAttempts == InitClient /\ [][NextAttempts]_vars

----------------------------------------------------------------------------
(* Properties of the number of requests                                    *)

\* the axios.get calls a verifyRamadanDates call has made
AttemptsOfVerify == task["primary"].gets + task["secondary"].gets

\* the call of the frame f has come to its end
Ended(f) == f.status \in {"returned", "raised"}

\* an upper bound of the steps the call of the frame f can still take: four
\* for each of the 12 attempts it has not made, and what is left of the
\* attempt it is in
StepsLeft(f) ==
  IF f.status = "idle" THEN 4 * 12 + 1
  ELSE IF Ended(f) THEN 0
  ELSE 4 * (12 - f.gets)
         + (CASE f.fpc = "inflight" -> 3
              [] f.fpc = "sleep" -> 2
              [] f.fpc \in {"returned", "raised"} -> 1
              [] OTHER -> 0)

\* the same for the verifyRamadanDates call and its two calls
StepsLeftOfVerify ==
  StepsLeft(task["primary"]) + StepsLeft(task["secondary"])
    + (IF verify.pc = "done" THEN 0 ELSE 1)

\* the call of the frame f is at a request to be made, a request in flight,
\* a timer, or a request that has settled
AtARequest(f) ==
  /\ f.pc \in {"resolve", "candidate"}
  /\ f.fpc \in {"loop", "inflight", "sleep", "returned", "raised"}

\* C34: a getRamadanCalendar call makes at most 12 HTTP attempts, at most 3
\* for the conversion of the year and at most 3 for each of at most 3
\* candidates, and a verifyRamadanDates call at most 24.  The calls come to
\* an end within these attempts: every step of a call lowers a bound of the
\* steps it has left, a call that has not ended is at a request, and the
\* step of a call whose 12th attempt has settled ends it.
C34_BoundedAttempts ==
  /\ [](\A t \in Tasks :
          task[t].op = "getRamadanCalendar" =>
            /\ task[t].gets <= 12 /\ task[t].requests <= 3
            /\ task[t].k <= 3 /\ Len(task[t].requested) <= 3
            /\ task[t].pc = "resolve" => task[t].gets <= 3
            /\ task[t].pc = "candidate" =>
                 task[t].gets <= 3 + 3 * (task[t].k - 1) + task[t].requests)
  /\ [](AttemptsOfVerify <= 24)
  /\ [](StepsLeftOfVerify >= 0)
  /\ [][StepsLeftOfVerify' < StepsLeftOfVerify]_vars
  /\ [](\A t \in Tasks : task[t].status = "running" => AtARequest(task[t]))
  /\ [][\A t \in Tasks :
          (/\ task[t].status = "running" /\ task[t].gets = 12
           /\ Settled(task[t]) /\ task'[t] # task[t]) => Ended(task'[t])]_vars
  /\ []((verify.pc = "awaiting" /\ \A t \in Tasks : Ended(task[t]))
          => ENABLED VerifySettle)

\* both getRamadanCalendar calls of a verifyRamadanDates call have made 12
\* attempts and have ended, and the call has returned
C34_Witness ==
  /\ verify.pc = "done" /\ ~verify.raised
  /\ \A t \in Tasks : task[t].gets = 12 /\ Ended(task[t])
  /\ AttemptsOfVerify = 24

----------------------------------------------------------------------------
(* The countdown of TodayPrayers over the ticks of a clock that goes on:   *)
(* the view has its Timing Set, each prayer without a time or with one of  *)
(* a few times, and the countdown effect has run once                      *)

TickChoices(name) ==
  CASE name = "Fajr"    -> { <<>>, Clock(4, 30) }
    [] name = "Dhuhr"   -> { <<>>, Clock(12, 15) }
    [] name = "Asr"     -> { <<>>, Clock(15, 30) }
    [] name = "Maghrib" -> { <<>>, Clock(18, 0) }
    [] OTHER            -> { <<>>, Clock(19, 30), Clock(0, 10) }

TickTimings ==
  { times \in [DOMAIN NoTimes -> UNION { TickChoices(name) : name \in DOMAIN NoTimes }] :
      \A name \in DOMAIN NoTimes : times[name] \in TickChoices(name) }

InitTicks ==
  /\ task = [t \in Tasks |-> IdleTask]
  /\ seen = {}
  /\ norm = IdleNorm
  /\ verify = IdleVerify
  /\ calendar = IdleCalendar
  /\ built = IdleBuilt
  /\ grid = IdleGrid
  /\ ramadan = IdleRamadan
  /\ \E times \in TickTimings : \E now \in Instants :
       today = CountdownEffect([IdleToday EXCEPT !.mounted = TRUE, !.mounts = 1,
                                                 !.hasTimes = TRUE, !.times = times,
                                                 !.loading = FALSE], now)

NextTicks == TodayTickLater \/ UnmountToday

SpecTicks == InitTicks /\ [][NextTicks]_vars

----------------------------------------------------------------------------
(* Properties of the countdown over the ticks                              *)

OneMillisecondLeft ==
  /\ today.mounted /\ today.updated /\ today.set
  /\ today.diff.v = 1 /\ today.countdown = <<"0", "0", ":", "0", "0", ":", "0", "0">>


\* Fajr has a time and the times the Timing Set has are in ascending order
\* along the canonical order of the prayers
Ascending(times) ==
  /\ WellTimed(times) /\ times["Fajr"] # <<>>
  /\ \A j, k \in 1..5 :
       (j < k /\ times[PrayerOrder[j]] # <<>> /\ times[PrayerOrder[k]] # <<>>) =>
         ClockMs(times[PrayerOrder[j]]) < ClockMs(times[PrayerOrder[k]])

\* the place of the prayer the view reports in the course of the day of the
\* last run: 1 to 5 for Fajr to Isha of that day, 6 for the Fajr of the
\* following day
PlaceOfNext(v) ==
  IF v.target.v >= 86400000 THEN 6
  ELSE CHOOSE j \in 1..5 : PrayerOrder[j] = v.nextPrayer

\* C36: with a Timing Set whose times are in ascending canonical order and
\* a clock that only goes on, every run of updateNextPrayer reports the
\* earliest prayer of the day that is strictly after now, or tomorrow's Fajr
\* when there is none, and from one run to the next of the same day the
\* prayer reported only moves forward through Fajr, Dhuhr, Asr, Maghrib,
\* Isha and tomorrow's Fajr, never back.
C36_NextOnlyMovesForward ==
  /\ []((today.mounted /\ today.updated /\ Ascending(today.times)) =>
          LET up == Upcoming(today.times, today.now)
              first == CHOOSE j \in up : \A k \in up : j <= k
          IN /\ today.set /\ ~today.target.nan
             /\ up # {} =>
                  /\ today.nextPrayer = PrayerOrder[first]
                  /\ today.target.v = ClockMs(today.times[PrayerOrder[first]])
                  /\ PlaceOfNext(today) = first
             /\ up = {} =>
                  /\ today.nextPrayer = "Fajr" /\ PlaceOfNext(today) = 6
                  /\ today.target.v = 86400000 + ClockMs(today.times["Fajr"]))
  /\ [][(/\ today.mounted /\ today'.mounted /\ today.updated
         /\ Ascending(today.times) /\ today'.day = today.day) =>
          /\ today'.times = today.times /\ today'.now >= today.now
          /\ PlaceOfNext(today') >= PlaceOfNext(today)]_vars

\* from Dhuhr reported at noon the runs of one day have gone on to tomorrow's
\* Fajr, and a run of the day after reports Fajr of that day again
C36_Witness ==
  /\ today.mounted /\ today.updated /\ today.times = TimingExample
  /\ today.day = 1 /\ today.now < ClockMs(today.times["Fajr"])
  /\ today.nextPrayer = "Fajr" /\ PlaceOfNext(today) = 1

\* a run after Isha reports tomorrow's Fajr
RolledOver ==
  /\ today.mounted /\ today.updated /\ today.times = TimingExample
  /\ today.day = 0 /\ today.now > ClockMs(today.times["Isha"])
  /\ PlaceOfNext(today) = 6

----------------------------------------------------------------------------
(* Properties of a failed day of the Ramadan view                          *)

\* the Ramadan Day of the day at the place n, counted from 1, of the window
\* of the cycle c is the last of days
EndsWithDay(days, c, n) ==
  /\ days # <<>> /\ SubSeq(days, 1, Len(days) - 1) = c.formattedDays
  /\ days[Len(days)].ramadanDay = n /\ days[Len(days)].date = c.window[n].n

\* C37: when getPrayerTimes fails for a day of the window, the day is left
\* out of the list, the view does not go to its error state, and the cycle
\* goes on to the day after, or ends with the list shown when the day was
\* the last; each day that is in the list has the ordinal of its place in
\* the window.
C37_FailedDayLeftOut ==
  /\ [](\A s \in Slots :
          LET c == ramadan.cycles[s] IN
            (c.pc = "days" /\ c.isMounted) =>
              /\ ramadan.error = "" /\ RamadanScreen(ramadan) # "error"
              /\ Len(c.formattedDays) = c.i - c.skipped)
  /\ [][\A s \in Slots :
          LET c == ramadan.cycles[s]
              d == ramadan'.cycles[s]
          IN (/\ c.pc = "days" /\ c.isMounted /\ ramadan'.mounted /\ d # c
              /\ ramadan'.selectedYear = ramadan.selectedYear) =>
               /\ ramadan'.error = "" /\ RamadanScreen(ramadan') # "error"
               /\ IF c.i + 1 < Len(c.window)
                  THEN /\ d.pc = "days" /\ d.i = c.i + 1 /\ d.window = c.window
                       /\ IF d.skipped = c.skipped + 1
                          THEN d.formattedDays = c.formattedDays
                          ELSE /\ d.skipped = c.skipped
                               /\ EndsWithDay(d.formattedDays, c, c.i + 1)
                  ELSE /\ d.pc = "idle" /\ ~ramadan'.loading
                       /\ \/ ramadan'.ramadanDays = c.formattedDays
                          \/ EndsWithDay(ramadan'.ramadanDays, c, c.i + 1)]_vars

\* the cycle of a window of 29 days is over, the second day was left out and
\* the 28 others are shown with their ordinals
C37_Witness ==
  /\ ramadan.mounted /\ ~ramadan.loading /\ ramadan.error = ""
  /\ \A s \in Slots : ramadan.cycles[s].pc = "idle"
  /\ Len(ramadan.ramadanDays) = 28
  /\ ramadan.ramadanDays[1].ramadanDay = 1 /\ ramadan.ramadanDays[2].ramadanDay = 3
  /\ ramadan.ramadanDays[28].ramadanDay = 29

\* the last day of a window is the one left out
LastDayLeftOut ==
  /\ ramadan.mounted /\ ~ramadan.loading /\ ramadan.error = ""
  /\ \A s \in Slots : ramadan.cycles[s].pc = "idle"
  /\ Len(ramadan.ramadanDays) = 29 /\ ramadan.ramadanDays[29].ramadanDay = 29
  /\ ramadan.ramadanDays[29].date = 30

----------------------------------------------------------------------------
(* Properties of the two time normalizers                                  *)

\* the argument is a 24-hour time "HH:MM"
Valid24(p) ==
  /\ p.hour \in { TwoDigits(h) : h \in 0..23 }
  /\ p.sep = <<":">>
  /\ p.minute \in { TwoDigits(m) : m \in 0..59 }
  /\ p.gap = <<>> /\ p.meridiem = <<>>

\* the argument is empty or of blanks only
Blank(p) == \A j \in 1..Len(TimeOf(p)) : TimeOf(p)[j] = " "

\* C38: for every time string the provider can send, a 12-hour time with
\* AM or PM, a 24-hour time or a blank, the formatTime that strips the
\* meridiem and the formatTime that converts to 24-hour time return the
\* same string.
C38_NormalizersAgree ==
  (norm.pc = "other" /\ (Valid12(norm.parts) \/ Valid24(norm.parts) \/ Blank(norm.parts))) =>
    norm.other = norm.once

\* the part of C38 about 24-hour times and blanks: on these the two agree
NormalizersAgreeOnTwentyFour ==
  (norm.pc = "other" /\ (Valid24(norm.parts) \/ Blank(norm.parts))) =>
    norm.other = norm.once

\* both have been applied to "13:05" and to " "
AgreedOnTwentyFour ==
  /\ norm.pc = "other" /\ norm.other = norm.once
  /\ norm.time \in { <<"1", "3", ":", "0", "5">>, <<" ">> }

----------------------------------------------------------------------------
(* The prayer list of Calendar with the calls that are in flight at a      *)
(* teardown followed to their end                                          *)

NextTeardown ==
  \/ MountCalendar
  \/ CalendarTick
  \/ CalendarFetched
  \/ CalendarFetchFailed
  \/ CalendarLateFetched
  \/ CalendarLateFailed
  \/ TeardownCalendar

SpecTeardown == InitClient /\ [][NextTeardown]_vars

----------------------------------------------------------------------------
(* Properties of the prayer list after a teardown                          *)

LateWhileListShown ==
  /\ calendar.late /\ calendar.mounted /\ calendar.mounts = 2
  /\ calendar.prayerTimes # <<>>

====
